---- MODULE Spec2Model ----
(***************************************************************************)
(* PoPOS: the genetic search for a stealthy port scan (ga.py), its         *)
(* configuration (config.py) and the probe state it drives (packet.py).    *)
(*                                                                         *)
(* Conventions.                                                            *)
(*  - Python lists are 0-based, TLA+ sequences 1-based: Python position i  *)
(*    is TLA+ position i + 1; page and slice arithmetic is done on the     *)
(*    Python offsets and shifted at the point of access.                   *)
(*  - Python floats are modelled as exact rationals <<num, den>>, den > 0, *)
(*    in lowest terms.  Delays are kept in hundredths of a second (the     *)
(*    generator rounds them to two decimals).                              *)
(*  - Every call of the random module is an explicit draw handed to the    *)
(*    operator that consumes it; the actions pick the draws from small     *)
(*    named sets.                                                          *)
(***************************************************************************)
EXTENDS Integers, Sequences, FiniteSets, TLC

\* ------------------------------------------------------------ config.py
PAGE_COUNT == 20
PAGE_SIZE == 5
MIN_GENERATIONS == 1
MAX_GENERATIONS == 3
TOURNAMENT_SIZE == 4
DEFAULT_PORT == 80
DEFAULT_SRC_PORT == 12345
FITNESS_THRESHOLD == <<98, 100>>
ELITE_PERCENT == <<5, 100>>
DEFAULT_MUTATION_RATE == <<5, 10>>
TCP_FLAGS == {"S", "A", "F", "R", "P", "SA", "FA", "RA", "PA", ""}
SOURCE_IP == "192.168.56.101"
DEFAULT_DST_IP == "192.168.56.101"
\* config.DELAY = 0.5 s, in hundredths of a second
DELAY == 50
PARALLEL_EVAL == FALSE

\* ------------------------------------------------------------ bounds
\* operator applications explored from a pair of fresh genomes
MaxOps == 2
\* alert records the IDS writes in one run of the evaluator harness
MaxLog == 3
\* evaluations in one run of the evaluator harness
MaxEvals == 2
\* individuals in the lists tournament_selection is tried on
MaxSelectPop == 4
\* probes of one replay that the target answers before the timeout
MaxAnswers == 2

\* ------------------------------------------------------------ rationals
Abs(n) == IF n < 0 THEN -n ELSE n

RECURSIVE GCD(_, _)
GCD(a, b) == IF b = 0 THEN a ELSE GCD(b, a % b)

\* the rational n/d (d > 0) in lowest terms
Rat(n, d) == LET g == GCD(Abs(n), d) IN <<n \div g, d \div g>>

\* a/b < c/d for b, d > 0, by integer parts and then the reciprocals of the
\* fractional parts (no product is formed, so nothing can overflow)
RECURSIVE Less(_, _, _, _)
Less(a, b, c, d) ==
  IF a \div b # c \div d THEN a \div b < c \div d
  ELSE IF c % d = 0 THEN FALSE
  ELSE IF a % b = 0 THEN TRUE
  ELSE Less(d, c % d, b, a % b)

RLt(p, q) == Less(p[1], p[2], q[1], q[2])
RLe(p, q) == ~RLt(q, p)
\* sums over the least common denominator
RAdd(p, q) ==
  LET g == GCD(p[2], q[2])
  IN Rat(p[1] * (q[2] \div g) + q[1] * (p[2] \div g), (p[2] \div g) * q[2])
RSub(p, q) == RAdd(p, <<-q[1], q[2]>>)
RMin(p, q) == IF RLe(p, q) THEN p ELSE q
RMax(p, q) == IF RLe(p, q) THEN q ELSE p
Zero == <<0, 1>>
One == <<1, 1>>

Min(a, b) == IF a <= b THEN a ELSE b

\* ------------------------------------------------------------ sequences
\* Python's s[a:b] for 0 <= a, clipped to the list as Python clips it
Slice(s, a, b) == SubSeq(s, Min(a, Len(s)) + 1, Min(b, Len(s)))

\* s[lo] + ... + s[hi]
RECURSIVE SumRange(_, _, _)
SumRange(s, lo, hi) ==
  IF lo > hi THEN 0
  ELSE IF lo = hi THEN s[lo]
  ELSE SumRange(s, lo, (lo + hi) \div 2) + SumRange(s, (lo + hi) \div 2 + 1, hi)

SumSeq(s) == SumRange(s, 1, Len(s))

\* ------------------------------------------------------------ instructions
\* An instruction is the Python tuple (kind, param).  The parameter is kept in
\* typed slots: s, t for strings, n, m for integers; a slot the kind does not
\* use holds "" or 0, and send_packet (param None) uses none.
Instr(op, s, t, n, m) == [op |-> op, s |-> s, t |-> t, n |-> n, m |-> m]
SetFlags(f) == Instr("set_flags", f, "", 0, 0)
SetIps(src, dst) == Instr("set_ips", src, dst, 0, 0)
SetPorts(sp, dp) == Instr("set_ports", "", "", sp, dp)
SetTtl(v) == Instr("set_ttl", "", "", v, 0)
SetWindowSize(v) == Instr("set_window_size", "", "", v, 0)
SetPayloadLength(v) == Instr("set_payload_length", "", "", v, 0)
SetIpFlags(f) == Instr("set_ip_flags", f, "", 0, 0)
SetDelay(v) == Instr("set_delay", "", "", v, 0)
SendPacket == Instr("send_packet", "", "", 0, 0)

\* the "192.168.1." + str(randint(1, 254)) source addresses that are drawn
SrcIpDraws == {"192.168.1.1", "192.168.1.254"}
\* the target of the run (--target) and its port range (--ports)
TargetIp == "10.0.0.5"
PortRange == <<80, 80>>

\* ------------------------------------------------------------ individuals
\* Individual.__init__ sets no stats attribute: it is absent until the first
\* evaluation that sends a packet (present = FALSE stands for "absent").
NoStats == [present |-> FALSE, alerts |-> 0, packets |-> 0, ttl_avg |-> Zero,
            payload_avg |-> Zero, window_avg |-> Zero, delay_avg |-> Zero]

\* The draws of one call of random_instructions: the parameters of the eight
\* leading instructions, the stream of random.choice results that fills the
\* genome (cycle, repeated), and the permutation random.shuffle applies.
GenomeDrawSeq ==
  << [flags |-> "S", src_ip |-> "192.168.1.1", src_port |-> 1024, ttl |-> 128,
      window |-> 0, payload |-> 1500, ip_flags |-> "DF", delay |-> 200,
      cycle |-> <<SendPacket>>, shuffle |-> "keep"],
     [flags |-> "SA", src_ip |-> "192.168.1.254", src_port |-> 65535, ttl |-> 32,
      window |-> 65535, payload |-> 0, ip_flags |-> "", delay |-> 0,
      cycle |-> <<SetFlags(""), SetTtl(32), SendPacket>>, shuffle |-> "reverse"],
     [flags |-> "", src_ip |-> "192.168.1.1", src_port |-> 1024, ttl |-> 32,
      window |-> 65535, payload |-> 0, ip_flags |-> "MF", delay |-> 0,
      cycle |-> <<SetDelay(200), SetWindowSize(0)>>, shuffle |-> "rotate"] >>

GenomeDraws == {GenomeDrawSeq[i] : i \in 1..Len(GenomeDrawSeq)}

\* the stream of instructions the filling loop draws, one per iteration
FillStream(cycle) ==
  [i \in 1..(2 * PAGE_COUNT * PAGE_SIZE) |-> cycle[((i - 1) % Len(cycle)) + 1]]

\* random.shuffle: a permutation of the list
Shuffle(s, how) ==
  CASE how = "keep" -> s
    [] how = "reverse" -> [i \in 1..Len(s) |-> s[Len(s) + 1 - i]]
    [] how = "rotate" -> [i \in 1..Len(s) |-> s[(i % Len(s)) + 1]]

random_instructions(target_ip, port_range, d) ==
  LET instructions ==
        << SetFlags(d.flags), SetIps(d.src_ip, target_ip),
           SetPorts(d.src_port, port_range[1]), SetTtl(d.ttl),
           SetWindowSize(d.window), SetPayloadLength(d.payload),
           SetIpFlags(d.ip_flags), SetDelay(d.delay) >>
      count == (PAGE_COUNT * PAGE_SIZE) - Len(instructions)
      fill == FillStream(d.cycle)
  IN Shuffle(instructions \o [i \in 1..count |-> fill[i]], d.shuffle)

NewIndividual(target_ip, port_range, d) ==
  [target_ip |-> target_ip, port_range |-> port_range,
   instructions |-> random_instructions(target_ip, port_range, d),
   fitness |-> Zero, stats |-> NoStats]

\* ------------------------------------------------------------ variation operators
\* page_size = 6, the local of crossover
page_size == 6

num_pages(parent1) == Len(parent1.instructions) \div page_size

\* random.randint(0, num_pages - 1): the page offsets that can be drawn
CrossoverPoints(parent1) == 0..(num_pages(parent1) - 1)

\* crossover with a slice that resumes one gene too late
crossover_dropGene(parent1, parent2, crossover_point) ==
  LET start == crossover_point * page_size
      end == start + page_size
      a == parent1.instructions
      b == parent2.instructions
  IN << [parent1 EXCEPT !.instructions =
            Slice(a, 0, start) \o Slice(b, start, end) \o Slice(a, end + 1, Len(a))],
        [parent2 EXCEPT !.instructions =
            Slice(b, 0, start) \o Slice(a, start, end) \o Slice(b, end + 1, Len(b))] >>

\* Python's a[start:end], b[start:end] = b[start:end], a[start:end] on the two
\* deep copies: each slice is replaced by the other list's slice.
crossover(parent1, parent2, crossover_point) ==
  LET start == crossover_point * page_size
      end == start + page_size
      a == parent1.instructions
      b == parent2.instructions
  IN << [parent1 EXCEPT !.instructions =
            Slice(a, 0, start) \o Slice(b, start, end) \o Slice(a, end, Len(a))],
        [parent2 EXCEPT !.instructions =
            Slice(b, 0, start) \o Slice(a, start, end) \o Slice(b, end, Len(b))] >>

\* the rate without its decay over the generations
mutation_prob_noDecay(current_gen, max_gen) == DEFAULT_MUTATION_RATE

\* DEFAULT_MUTATION_RATE * (1 - current_gen / max_gen)
mutation_prob(current_gen, max_gen) ==
  Rat(DEFAULT_MUTATION_RATE[1] * (max_gen - current_gen),
      DEFAULT_MUTATION_RATE[2] * max_gen)

\* a vocabulary that has a TTL instruction as well
MutationVocabulary_withTtl(individual) ==
  {SetFlags(f) : f \in TCP_FLAGS}
    \cup {SetIps(s, individual.target_ip) : s \in SrcIpDraws}
    \cup {SetPorts(sp, dp) : sp \in {1024, 65535},
                             dp \in individual.port_range[1]..individual.port_range[2]}
    \cup {SendPacket, SetTtl(128)}

\* what random.choice can return in mutate
MutationVocabulary(individual) ==
  {SetFlags(f) : f \in TCP_FLAGS}
    \cup {SetIps(s, individual.target_ip) : s \in SrcIpDraws}
    \cup {SetPorts(sp, dp) : sp \in {1024, 65535},
                             dp \in individual.port_range[1]..individual.port_range[2]}
    \cup {SendPacket}

\* The draws of one call of mutate: random.random() returns roll / 100 at the
\* positions of hits and 0.99 elsewhere; instr is what random.choice returns.
RollAt(draw, i) == IF i \in draw.hits THEN <<draw.roll, 100>> ELSE <<99, 100>>

mutate(individual, current_gen, max_gen, draw) ==
  LET prob == mutation_prob(current_gen, max_gen)
  IN [individual EXCEPT !.instructions =
        [i \in 1..Len(@) |-> IF RLt(RollAt(draw, i), prob) THEN draw.instr ELSE @[i]]]

\* random.sample(range(len), 2): two distinct offsets i, j
swap(individual, i, j) ==
  [individual EXCEPT !.instructions =
     [k \in 1..Len(@) |-> IF k = i + 1 THEN @[j + 1]
                           ELSE IF k = j + 1 THEN @[i + 1] ELSE @[k]]]

\* ------------------------------------------------------------ packet.py
\* Packet.__init__; ttl, window_size, payload_length and ip_flags are
\* attributes that exist only once set (their names are then in has).
Packet ==
  [src_ip |-> SOURCE_IP, dst_ip |-> DEFAULT_DST_IP, src_port |-> DEFAULT_SRC_PORT,
   dst_port |-> DEFAULT_PORT, delay |-> DELAY, flags |-> "S",
   ttl |-> 0, window_size |-> 0, payload_length |-> 0, ip_flags |-> "", has |-> {}]

\* the setter an instruction calls on the probe state (send_packet sets nothing)
apply_instruction(packet, ins) ==
  CASE ins.op = "set_flags" -> [packet EXCEPT !.flags = ins.s]
    [] ins.op = "set_ips" -> [packet EXCEPT !.src_ip = ins.s, !.dst_ip = ins.t]
    [] ins.op = "set_ports" -> [packet EXCEPT !.src_port = ins.n, !.dst_port = ins.m]
    [] ins.op = "set_ttl" -> [packet EXCEPT !.ttl = ins.n, !.has = @ \cup {"ttl"}]
    [] ins.op = "set_window_size" ->
         [packet EXCEPT !.window_size = ins.n, !.has = @ \cup {"window_size"}]
    [] ins.op = "set_payload_length" ->
         [packet EXCEPT !.payload_length = ins.n, !.has = @ \cup {"payload_length"}]
    [] ins.op = "set_ip_flags" ->
         [packet EXCEPT !.ip_flags = ins.s, !.has = @ \cup {"ip_flags"}]
    [] ins.op = "set_delay" -> [packet EXCEPT !.delay = ins.n]
    [] OTHER -> packet

\* ------------------------------------------------------------ evaluate_fitness
\* get_snort_alert_count on a log of alert_log lines read from offset (the
\* offset is kept in lines): the number of new lines and the new offset; a
\* missing file gives 0 and leaves the offset alone.
\* a poll that answers a missing file by going back to the start
get_snort_alert_count_rewinds(present, lines, offset) ==
  IF present
  THEN [count |-> IF lines > offset THEN lines - offset ELSE 0,
        offset |-> IF lines > offset THEN lines ELSE offset]
  ELSE [count |-> 0, offset |-> 0]

\* a poll that reads the log from its start
get_snort_alert_count_fromStart(present, lines, offset) ==
  IF present
  THEN [count |-> lines, offset |-> IF lines > offset THEN lines ELSE offset]
  ELSE [count |-> 0, offset |-> offset]

get_snort_alert_count(present, lines, offset) ==
  IF present
  THEN [count |-> IF lines > offset THEN lines - offset ELSE 0,
        offset |-> IF lines > offset THEN lines ELSE offset]
  ELSE [count |-> 0, offset |-> offset]

\* The for loop of lines 132-159, by what it leaves in each local after its
\* first k iterations (k = 0: the locals as the loop starts).
\* The instruction numbers (1-based) among the first k that have kind op:
Executed(instructions, k, op) == {i \in 1..k : instructions[i].op = op}

\* the latest of them, 0 if there is none
LatestOf(instructions, k, op) ==
  LET done == Executed(instructions, k, op)
  IN IF done = {} THEN 0 ELSE CHOOSE i \in done : \A j \in done : j <= i

\* the probe state: every setter called in order, so each field holds what the
\* latest instruction of its kind gave it
packet_after(instructions, k) ==
  LET at(op) == LatestOf(instructions, k, op)
      one(packet, op) ==
        IF at(op) = 0 THEN packet ELSE apply_instruction(packet, instructions[at(op)])
  IN one(one(one(one(one(one(one(one(Packet, "set_flags"), "set_ips"), "set_ports"),
       "set_ttl"), "set_window_size"), "set_payload_length"), "set_ip_flags"),
       "set_delay")

\* the list a kind's parameters were appended to, in execution order
appended(instructions, k, op) ==
  LET sel == SelectSeq(SubSeq(instructions, 1, k), LAMBDA ins : ins.op = op)
  IN [i \in 1..Len(sel) |-> sel[i].n]

\* raises is the set of instruction numbers at which packet.send_packet
\* raises: the exception is caught and sent_packets is not incremented
execute_prefix(instructions, k, raises) ==
  [packet |-> packet_after(instructions, k),
   ttl_values |-> appended(instructions, k, "set_ttl"),
   payload_lengths |-> appended(instructions, k, "set_payload_length"),
   window_sizes |-> appended(instructions, k, "set_window_size"),
   delays |-> appended(instructions, k, "set_delay"),
   sent_packets |-> Cardinality(Executed(instructions, k, "send_packet") \ raises)]

StartLocals == execute_prefix(<<>>, 0, {})

\* the for loop left at the first send that raises
execute_instructions_abortOnRaise(instructions, raises) ==
  LET failed == {k \in 1..Len(instructions) :
                   instructions[k].op = "send_packet" /\ k \in raises}
  IN IF failed = {} THEN execute_prefix(instructions, Len(instructions), raises)
     ELSE execute_prefix(instructions,
                         (CHOOSE k \in failed : \A j \in failed : k <= j) - 1, raises)

\* the whole for loop over individual.instructions
execute_instructions(instructions, raises) ==
  execute_prefix(instructions, Len(instructions), raises)

\* sum(values) / len(values) if values else default
average(values, default) ==
  IF values # <<>> THEN Rat(SumSeq(values), Len(values)) ELSE default

\* the window test taken as "at most 5000"
bonus_windowInclusive(avg_ttl, avg_payload, avg_window, avg_delay) ==
  LET hits == (IF RLt(<<64, 1>>, avg_ttl) THEN 1 ELSE 0)
              + (IF RLt(<<200, 1>>, avg_payload) THEN 1 ELSE 0)
              + (IF RLe(avg_window, <<5000, 1>>) THEN 1 ELSE 0)
              + (IF RLe(<<50, 1>>, avg_delay) THEN 1 ELSE 0)
  IN Rat(5 * hits, 100)

\* the four morphology tests, 0.05 each
bonus(avg_ttl, avg_payload, avg_window, avg_delay) ==
  LET hits == (IF RLt(<<64, 1>>, avg_ttl) THEN 1 ELSE 0)
              + (IF RLt(<<200, 1>>, avg_payload) THEN 1 ELSE 0)
              + (IF RLt(avg_window, <<5000, 1>>) THEN 1 ELSE 0)
              + (IF RLe(<<50, 1>>, avg_delay) THEN 1 ELSE 0)
  IN Rat(5 * hits, 100)

\* [val for instr, val in individual.instructions if instr == "set_flags"]
flag_hist(instructions) ==
  LET flagged == SelectSeq(instructions, LAMBDA ins : ins.op = "set_flags")
  IN [i \in 1..Len(flagged) |-> flagged[i].s]

count_of(hist, f) == Cardinality({i \in 1..Len(hist) : hist[i] = f})

\* the penalty table, in hundredths, summed per occurrence
flag_penalty(hist) ==
  Rat(count_of(hist, "") * 1 + count_of(hist, "F") * 1 + count_of(hist, "SF") * 2
      + count_of(hist, "RA") * 2 + count_of(hist, "SA") * 2
      + count_of(hist, "FA") * 2 + count_of(hist, "PA") * 1, 100)

flag_entropy(hist) ==
  IF hist # <<>>
  THEN Rat(Cardinality({hist[i] : i \in 1..Len(hist)}), Len(hist))
  ELSE Zero

entropy_bonus(hist) ==
  LET e == flag_entropy(hist) IN Rat(5 * e[1], 100 * e[2])

\* window average of an evaluation that set no window size
NoWindowAverage == <<65535, 1>>

\* base_fitness + bonus + entropy_bonus - flag_penalty
raw_fitness(instructions, loc, alerts_triggered) ==
  LET base_fitness == Rat(loc.sent_packets - alerts_triggered, loc.sent_packets)
      b == bonus(average(loc.ttl_values, Zero), average(loc.payload_lengths, Zero),
                 average(loc.window_sizes, NoWindowAverage), average(loc.delays, Zero))
      hist == flag_hist(instructions)
  IN RSub(RAdd(RAdd(base_fitness, b), entropy_bonus(hist)), flag_penalty(hist))

\* the score without its clamp
total_fitness_unclamped(instructions, loc, alerts_triggered) ==
  raw_fitness(instructions, loc, alerts_triggered)

\* max(min(base_fitness + bonus + entropy_bonus - flag_penalty, 1.0), 0.0)
total_fitness(instructions, loc, alerts_triggered) ==
  RMax(RMin(raw_fitness(instructions, loc, alerts_triggered), One), Zero)

\* an evaluation that sent nothing leaves the individual as it was
scored_keepsFitness(individual, loc, alerts_triggered) ==
  IF loc.sent_packets = 0
  THEN individual
  ELSE [individual EXCEPT
          !.fitness = total_fitness(individual.instructions, loc, alerts_triggered)]

\* individual.fitness and individual.stats as evaluate_fitness leaves them
\* (lines 164-210): with no packet sent only the fitness is assigned
scored(individual, loc, alerts_triggered) ==
  IF loc.sent_packets = 0
  THEN [individual EXCEPT !.fitness = Zero]
  ELSE [individual EXCEPT
          !.fitness = total_fitness(individual.instructions, loc, alerts_triggered),
          !.stats = [present |-> TRUE, alerts |-> alerts_triggered,
                     packets |-> loc.sent_packets,
                     ttl_avg |-> average(loc.ttl_values, Zero),
                     payload_avg |-> average(loc.payload_lengths, Zero),
                     window_avg |-> average(loc.window_sizes, NoWindowAverage),
                     delay_avg |-> average(loc.delays, Zero)]]

\* the value evaluate_fitness returns
returned(individual, loc, alerts_triggered) ==
  IF loc.sent_packets = 0 THEN Zero
  ELSE total_fitness(individual.instructions, loc, alerts_triggered)

\* ------------------------------------------------------------ evolve_population: its parts
\* sum(fitnesses) / len(fitnesses), kept as the quotient it is: the terms of
\* the sum and the divisor
avg_fitness(fitnesses) == [sum_of |-> fitnesses, over |-> Len(fitnesses)]

\* max(individuals, key = fitness): the first individual of maximal fitness
best_index(individuals) ==
  CHOOSE i \in 1..Len(individuals) :
    /\ \A j \in 1..Len(individuals) : RLe(individuals[j].fitness, individuals[i].fitness)
    /\ \A j \in 1..(i - 1) : RLt(individuals[j].fitness, individuals[i].fitness)

\* the list in its own order, no sorting at all
sorted_by_fitness_unsorted(individuals) == individuals

\* sorted(individuals, key = fitness, reverse = True): descending, and stable
\* (individuals of equal fitness keep their order)
sorted_by_fitness(individuals) ==
  LET n == Len(individuals)
      rank(i) == Cardinality({j \in 1..n :
                    \/ RLt(individuals[i].fitness, individuals[j].fitness)
                    \/ (j < i /\ individuals[j].fitness = individuals[i].fitness)}) + 1
  IN [r \in 1..n |-> individuals[CHOOSE i \in 1..n : rank(i) = r]]

\* the same sort, by the places the sorted objects had in the list: which
\* object of the list stands at each place of the result
sorted_order(individuals) ==
  LET n == Len(individuals)
      rank(i) == Cardinality({j \in 1..n :
                    \/ RLt(individuals[i].fitness, individuals[j].fitness)
                    \/ (j < i /\ individuals[j].fitness = individuals[i].fitness)}) + 1
  IN [r \in 1..n |-> CHOOSE i \in 1..n : rank(i) = r]

\* max(1, int(len(population.individuals) * ELITE_PERCENT))
\* every individual an elite
elite_count_whole(size) == size

\* max(1, int(len(population.individuals) * ELITE_PERCENT))
elite_count(size) ==
  LET scaled == (size * ELITE_PERCENT[1]) \div ELITE_PERCENT[2]
  IN IF scaled > 1 THEN scaled ELSE 1

\* sorted(...)[:elite_count]
select_elites(individuals) ==
  Slice(sorted_by_fitness(individuals), 0, elite_count(Len(individuals)))

\* the objects the elites are: sorted and the slice copy references, so the
\* elites are objects of the population (ids: the object at each place of it)
elite_objects(individuals, ids) ==
  LET order == sorted_order(individuals)
  IN [r \in 1..elite_count(Len(individuals)) |-> ids[order[r]]]

\* How the worker of central_fitness_controller ends.  apply_async hands
\* evaluate_fitness the individual alone, without generation and index, so
\* the call raises TypeError in the worker and result.get raises it again;
\* or result.get raises TimeoutError first.
WorkerOutcomes == {"TypeError", "TimeoutError"}

\* the failure of a worker leaves no entry in the list
controller_result_dropped(fitnesses, outcome) == fitnesses

\* lines 253-264: what the try statement appends to fitnesses, both except
\* clauses appending 0.0
controller_result(fitnesses, outcome) ==
  IF outcome \in {"TypeError", "TimeoutError"} THEN Append(fitnesses, Zero)
  ELSE Append(fitnesses, outcome)

\* the termination test without its generation part
success_ignoresMinimum(best, generation) == RLe(FITNESS_THRESHOLD, best.fitness)

\* best.fitness >= FITNESS_THRESHOLD and generation >= MIN_GENERATIONS
success(best, generation) ==
  RLe(FITNESS_THRESHOLD, best.fitness) /\ generation >= MIN_GENERATIONS

\* one generation more than range(MAX_GENERATIONS) has
more_generations_inclusive(generation) == generation + 1 <= MAX_GENERATIONS

\* for generation in range(MAX_GENERATIONS): whether an iteration follows
more_generations(generation) == generation + 1 < MAX_GENERATIONS

\* getattr(best, "stats", {}).get(key, 0) for the keys of log_generation
generation_record(generation, best, fitnesses) ==
  [generation |-> generation, best_fitness |-> best.fitness,
   avg_fitness |-> avg_fitness(fitnesses),
   best_alerts |-> IF best.stats.present THEN best.stats.alerts ELSE 0,
   best_packets |-> IF best.stats.present THEN best.stats.packets ELSE 0,
   ttl_avg |-> IF best.stats.present THEN best.stats.ttl_avg ELSE Zero,
   payload_avg |-> IF best.stats.present THEN best.stats.payload_avg ELSE Zero,
   window_avg |-> IF best.stats.present THEN best.stats.window_avg ELSE Zero,
   delay_avg |-> IF best.stats.present THEN best.stats.delay_avg ELSE Zero]

\* tournament_selection on the competitors random.sample drew (sample: the
\* numbers of tournament_size distinct individuals, in the order drawn)
tournament_selection(individuals, tournament_size, sample) ==
  LET competitors == [i \in 1..tournament_size |-> individuals[sample[i]]]
      sorted_competitors == sorted_by_fitness(competitors)
  IN <<sorted_competitors[1], sorted_competitors[2]>>

\* the best competitor returned twice
tournament_winners_same(individuals, tournament_size, sample) ==
  LET competitors == [i \in 1..tournament_size |-> individuals[sample[i]]]
  IN <<sample[sorted_order(competitors)[1]], sample[sorted_order(competitors)[1]]>>

\* which objects of the list tournament_selection returns: the places in
\* individuals of sorted_competitors[0] and sorted_competitors[1]
tournament_winners(individuals, tournament_size, sample) ==
  LET competitors == [i \in 1..tournament_size |-> individuals[sample[i]]]
      order == sorted_order(competitors)
  IN <<sample[order[1]], sample[order[2]]>>

\* one iteration of the while loop (lines 378-383): the two children
breed_pair(individuals, generation, d) ==
  LET parents == tournament_selection(individuals, TOURNAMENT_SIZE, d.sample)
      children == crossover(parents[1], parents[2], d.point)
      child1 == mutate(children[1], generation, MAX_GENERATIONS, d.m1)
      child2 == mutate(children[2], generation, MAX_GENERATIONS, d.m2)
  IN <<swap(child1, d.s1[1], d.s1[2]), swap(child2, d.s2[1], d.s2[2])>>

\* the copy is the object copied
deepcopy_object_shared(object, fresh) == object

\* copy.deepcopy(parent): a new object (fresh), not the one copied
deepcopy_object(object, fresh) == fresh

\* What a list of references shows once crossover, mutate and swap have
\* written, in place, to the objects child1 and child2: the places that refer
\* to one of them show its new value (ids: the object at each place).
written(list, ids, child1, value1, child2, value2) ==
  [i \in 1..Len(list) |-> IF ids[i] = child2 THEN value2
                           ELSE IF ids[i] = child1 THEN value1 ELSE list[i]]

\* the next population, not cut to the size of the current one
truncated_not(new_individuals, size) == new_individuals

\* new_individuals[:len(population.individuals)]
truncated(new_individuals, size) == Slice(new_individuals, 0, size)

\* ------------------------------------------------------------ the genome file
\* An instruction is a Python tuple (kind, parameter); the parameter is None,
\* a str, an int, a float (a delay, in hundredths) or a pair of str or int.
Value(type, s, n, items) == [type |-> type, s |-> s, n |-> n, items |-> items]
NoneValue == Value("None", "", 0, <<>>)
StrValue(s) == Value("str", s, 0, <<>>)
IntValue(n) == Value("int", "", n, <<>>)
FloatValue(n) == Value("float", "", n, <<>>)
PairValue(a, b) == Value("tuple", "", 0, <<a, b>>)

\* the parameter of an instruction of the genome
param_of(ins) ==
  CASE ins.op \in {"set_flags", "set_ip_flags"} -> StrValue(ins.s)
    [] ins.op = "set_ips" -> PairValue(StrValue(ins.s), StrValue(ins.t))
    [] ins.op = "set_ports" -> PairValue(IntValue(ins.n), IntValue(ins.m))
    [] ins.op = "set_delay" -> FloatValue(ins.n)
    [] ins.op = "send_packet" -> NoneValue
    [] OTHER -> IntValue(ins.n)

\* Text is a sequence of tokens: the punctuation characters, the digits, the
\* word None, and the content of a string literal (its characters, none of
\* which needs an escape in this vocabulary) as one token.
DigitChars == <<"0", "1", "2", "3", "4", "5", "6", "7", "8", "9">>
Whitespace == {" ", "\n"}

RECURSIVE Pow10(_)
Pow10(k) == IF k = 0 THEN 1 ELSE 10 * Pow10(k - 1)

\* str(n) for an int n >= 0: its decimal digits
repr_int(n) ==
  LET width == CHOOSE k \in 1..10 : n < Pow10(k) /\ (k = 1 \/ Pow10(k - 1) <= n)
  IN [i \in 1..width |-> DigitChars[((n \div Pow10(width - i)) % 10) + 1]]

\* repr of a float that is a number of hundredths: the integer part, a point
\* and the shortest fraction, at least one digit
repr_float(hundredths) ==
  LET fraction == hundredths % 100
  IN repr_int(hundredths \div 100) \o <<".">> \o
       (IF fraction % 10 = 0 THEN repr_int(fraction \div 10)
        ELSE <<DigitChars[(fraction \div 10) + 1], DigitChars[(fraction % 10) + 1]>>)

\* repr of None, a str, an int or a float
repr_atom(v) ==
  CASE v.type = "None" -> <<"None">>
    [] v.type = "str" -> IF v.s = "" THEN <<"'", "'">> ELSE <<"'", v.s, "'">>
    [] v.type = "int" -> repr_int(v.n)
    [] v.type = "float" -> repr_float(v.n)

repr_value(v) ==
  IF v.type = "tuple"
  THEN <<"(">> \o repr_atom(v.items[1]) \o <<",", " ">> \o repr_atom(v.items[2])
         \o <<")">>
  ELSE repr_atom(v)

\* f"{instr}\n": the repr of the tuple and a newline
repr_line(ins) ==
  <<"(", "'", ins.op, "'", ",", " ">> \o repr_value(param_of(ins)) \o <<")", "\n">>

\* the lines save_individual writes
save_individual(ind) == [i \in 1..Len(ind.instructions) |-> repr_line(ind.instructions[i])]

\* line.strip(): the line without its leading and trailing whitespace
strip(line) ==
  LET inked == {i \in 1..Len(line) : line[i] \notin Whitespace}
  IN IF inked = {} THEN <<>>
     ELSE SubSeq(line, CHOOSE i \in inked : \A j \in inked : i <= j,
                       CHOOSE i \in inked : \A j \in inked : j <= i)

\* int(digits)
int_of(digits) ==
  SumSeq([i \in 1..Len(digits) |->
            (CHOOSE d \in 0..9 : DigitChars[d + 1] = digits[i]) * Pow10(Len(digits) - i)])

\* float(text), as a number of hundredths (at most two fraction digits)
float_of(text) ==
  LET point == CHOOSE i \in 1..Len(text) : text[i] = "."
      fraction == SubSeq(text, point + 1, Len(text))
  IN int_of(SubSeq(text, 1, point - 1)) * 100
       + int_of(fraction) * Pow10(2 - Len(fraction))

\* ast.literal_eval of the text of None, a string, an int or a float
eval_atom(text) ==
  IF text = <<"None">> THEN NoneValue
  ELSE IF text[1] = "'" THEN StrValue(IF Len(text) = 2 THEN "" ELSE text[2])
  ELSE IF \E i \in 1..Len(text) : text[i] = "." THEN FloatValue(float_of(text))
  ELSE IntValue(int_of(text))

\* ast.literal_eval of the text of a parameter
eval_value(text) ==
  IF text[1] = "("
  THEN LET comma == CHOOSE i \in 1..(Len(text) - 1) :
                      /\ text[i] = "," /\ text[i + 1] = " "
                      /\ \A j \in 1..(i - 1) : ~(text[j] = "," /\ text[j + 1] = " ")
       IN PairValue(eval_atom(SubSeq(text, 2, comma - 1)),
                    eval_atom(SubSeq(text, comma + 2, Len(text) - 1)))
  ELSE eval_atom(text)

\* ast.literal_eval(line.strip()).  pair tells whether the value is a
\* 2-tuple, which "for instr, param in instructions" can unpack: then kind
\* and param are its items; a value that is no tuple is kept in param.
literal_eval(text) ==
  IF text[1] = "("
  THEN [kind |-> text[3], param |-> eval_value(SubSeq(text, 7, Len(text) - 1)),
        pair |-> TRUE]
  ELSE [kind |-> "", param |-> eval_atom(text), pair |-> FALSE]

\* The texts ast.literal_eval takes, among the texts of this model: None, a
\* quoted string, an int, a float with digits on both sides of its point,
\* and a 2-tuple of such values or of 2-tuples of them.  Any other text (the
\* empty one, a tuple that is not closed) makes it raise SyntaxError.
is_digits(text) ==
  text # <<>> /\ \A i \in 1..Len(text) : \E d \in 1..10 : DigitChars[d] = text[i]

is_atom(text) ==
  \/ text = <<"None">>
  \/ text = <<"'", "'">>
  \/ Len(text) = 3 /\ text[1] = "'" /\ text[3] = "'" /\ text[2] # "'"
  \/ is_digits(text)
  \/ \E p \in 2..(Len(text) - 1) :
       text[p] = "." /\ is_digits(SubSeq(text, 1, p - 1))
                    /\ is_digits(SubSeq(text, p + 1, Len(text)))

is_pair(text, is_item(_)) ==
  /\ Len(text) >= 5
  /\ text[1] = "("
  /\ text[Len(text)] = ")"
  /\ \E c \in 3..(Len(text) - 3) :
       /\ text[c] = "," /\ text[c + 1] = " "
       /\ is_item(SubSeq(text, 2, c - 1))
       /\ is_item(SubSeq(text, c + 2, Len(text) - 1))

is_literal(text) ==
  LET is_value(t) == is_atom(t) \/ is_pair(t, is_atom)
  IN is_value(text) \/ is_pair(text, is_value)

\* whether load_individual raises: some line is not a literal
load_raises(lines) == \E i \in 1..Len(lines) : ~is_literal(strip(lines[i]))

\* a parser that reads every quoted text as the empty string
load_individual_emptyStrings(lines) ==
  [i \in 1..Len(lines) |->
     LET tuple == literal_eval(strip(lines[i]))
     IN IF tuple.param.type = "str" THEN [tuple EXCEPT !.param = StrValue("")] ELSE tuple]

\* load_individual: one tuple per line of the file
load_individual(lines) == [i \in 1..Len(lines) |-> literal_eval(strip(lines[i]))]

\* ------------------------------------------------------------ replay.py
\* what sr1 returns: None after the timeout, or a packet, which has a TCP
\* layer with flags or has none
NoResponse == [received |-> FALSE, tcp |-> FALSE, flags |-> ""]
TcpResponse(flags) == [received |-> TRUE, tcp |-> TRUE, flags |-> flags]
OtherResponse == [received |-> TRUE, tcp |-> FALSE, flags |-> ""]

\* the classification with the two TCP answers exchanged
classify_swapped(response) ==
  IF ~response.received THEN "filtered"
  ELSE IF response.tcp /\ response.flags = "SA" THEN "closed"
  ELSE IF response.tcp /\ response.flags = "RA" THEN "open"
  ELSE "unknown"

\* replay_and_classify_packet, lines 151-161: the classification of the response
classify(response) ==
  IF ~response.received THEN "filtered"
  ELSE IF response.tcp /\ response.flags = "SA" THEN "open"
  ELSE IF response.tcp /\ response.flags = "RA" THEN "closed"
  ELSE "unknown"

\* Replay.__init__.  The destination port of the probe state of a replay is
\* kept as a Value: it is an int or, once target_ports is put there, a tuple.
Replay(instruction_file, target_ip, target_ports) ==
  [pc |-> "new", instruction_file |-> instruction_file, target_ip |-> target_ip,
   target_ports |-> target_ports,
   results |-> [open |-> 0, closed |-> 0, filtered |-> 0, unknown |-> 0],
   packet |-> [Packet EXCEPT !.dst_port = IntValue(@)], delay |-> DELAY,
   instructions |-> <<>>, executed |-> 0, probes |-> <<>>]

\* a value as the condition of an if: None, 0, 0.0, "" and () are false
truthy(v) ==
  CASE v.type = "None" -> FALSE
    [] v.type = "str" -> v.s # ""
    [] v.type = "tuple" -> v.items # <<>>
    [] OTHER -> v.n # 0

\* the probe replay_and_classify_packet sends: the overrides, where given,
\* in place of the destination of the probe state
replay_probe(packet, override_dst_ip, override_dst_port) ==
  [src_ip |-> packet.src_ip, src_port |-> packet.src_port, flags |-> packet.flags,
   dst_ip |-> IF truthy(StrValue(override_dst_ip)) THEN override_dst_ip
              ELSE packet.dst_ip,
   dst_port |-> IF truthy(override_dst_port) THEN override_dst_port
                ELSE packet.dst_port]

\* one iteration of the for loop of Replay.run, lines 77-95: the instruction
\* after the executed ones; response is what sr1 returns if it is a send
replay_step(rp, response) ==
  LET tuple == rp.instructions[rp.executed + 1]
      instr == tuple.kind
      param == tuple.param
      result == classify(response)
      after ==
        CASE instr = "set_flags" -> [rp EXCEPT !.packet.flags = param.s]
          [] instr = "set_ports" ->
               [rp EXCEPT !.packet.src_port = param.items[1].n,
                          !.packet.dst_port = IF truthy(rp.target_ports)
                                              THEN rp.target_ports
                                              ELSE param.items[2]]
          [] instr = "set_ips" ->
               [rp EXCEPT !.packet.src_ip = SOURCE_IP, !.packet.dst_ip = rp.target_ip]
          [] instr = "send_packet" ->
               [rp EXCEPT !.results[result] = @ + 1,
                          !.probes = Append(@, replay_probe(rp.packet, rp.target_ip,
                                                            rp.packet.dst_port))]
          [] OTHER -> rp
  IN [after EXCEPT !.executed = @ + 1]

\* ------------------------------------------------------------ state
VARIABLES
  population,          \* Population.individuals
  alert_log,           \* number of alert records in SNORT_ALERT_FILE
  log_present,         \* whether SNORT_ALERT_FILE exists
  snort_alert_offset,  \* the module global _snort_alert_offset
  ev,                  \* the call of evaluate_fitness in progress, or the latest one
  last,                \* the latest operator application: its inputs and draws
  steps,               \* operator applications, or calls of evaluate_fitness, so far
  pop_size,            \* --pop_size, the size Population was built with
  generation,          \* the loop variable of evolve_population
  pc,                  \* where evolve_population stands
  fitnesses,           \* the list evaluate_population is building
  elites,              \* evolve_population's elites
  new_individuals,     \* evolve_population's new_individuals
  generation_logs,     \* Logger.generation_logs
  saved,               \* the files save_individual wrote: generation and genome
  transport_up,        \* whether packet.send_packet succeeds (else it raises)
  objects,             \* which Individual object each place of the lists refers to
  workers,             \* central_fitness_controller: how each worker ended
  replay               \* the Replay object and where its run stands

loop == <<pop_size, generation, pc, fitnesses, elites, new_individuals,
          generation_logs, saved, transport_up, objects, workers, replay>>

vars == <<population, alert_log, log_present, snort_alert_offset, ev, last, steps,
          pop_size, generation, pc, fitnesses, elites, new_individuals,
          generation_logs, saved, transport_up, objects, workers, replay>>

\* no list of Individual objects yet: population, elites and new_individuals
\* hold references, and allocated counts the objects created so far
NoObjects == [population |-> <<>>, elites |-> <<>>, new_individuals |-> <<>>,
              allocated |-> 0]

\* no Replay object
NoReplay == [pc |-> "none"]

\* evolve_population not running
LoopIdle ==
  /\ pop_size = 0
  /\ generation = 0
  /\ pc = "none"
  /\ fitnesses = <<>>
  /\ elites = <<>>
  /\ new_individuals = <<>>
  /\ generation_logs = <<>>
  /\ saved = <<>>
  /\ transport_up = TRUE
  /\ objects = NoObjects
  /\ workers = <<>>
  /\ replay = NoReplay

NoOp == [op |-> "none", before |-> <<>>, point |-> 0, who |-> 0]

\* no call of evaluate_fitness yet.  log_before and log_after record the
\* length of the alert log at the two polls, and raises the sends that failed.
NoEval ==
  [pc |-> "idle", who |-> 0, loc |-> StartLocals, alerts_before |-> 0,
   alerts_after |-> 0, alerts_triggered |-> 0, result |-> Zero,
   log_before |-> 0, log_after |-> 0, raises |-> {}, fitness_before |-> Zero,
   missing_before |-> FALSE, missing_after |-> FALSE]

\* ------------------------------------------------------------ the environment
\* the IDS appends one alert record to its log (creating the file if need be)
AppendAlert ==
  /\ alert_log < MaxLog
  /\ alert_log' = alert_log + 1
  /\ log_present' = TRUE
  /\ UNCHANGED <<population, snort_alert_offset, ev, last, steps, loop>>

\* ------------------------------------------------------------ evaluate_fitness, step by step
\* lines 119-130: a fresh Packet, the poll before, the empty tallies
evaluate_begin(w) ==
  LET poll == get_snort_alert_count(log_present, alert_log, snort_alert_offset)
  IN /\ ev.pc \in {"idle", "done"}
     /\ ev' = [NoEval EXCEPT !.pc = "exec", !.who = w, !.alerts_before = poll.count,
                             !.log_before = alert_log,
                             !.missing_before = ~log_present,
                             !.fitness_before = population[w].fitness]
     /\ snort_alert_offset' = poll.offset

\* lines 132-159: the for loop over the genome; a send that raises is caught
evaluate_execute(raises) ==
  /\ ev.pc = "exec"
  /\ ev' = [ev EXCEPT !.pc = "after", !.raises = raises,
                      !.loc = execute_instructions(population[ev.who].instructions,
                                                   raises)]

\* lines 161-222: the poll after, the score, the fields of the individual
evaluate_finish ==
  LET poll == get_snort_alert_count(log_present, alert_log, snort_alert_offset)
      alerts_triggered == poll.count - ev.alerts_before
  IN /\ ev.pc = "after"
     /\ snort_alert_offset' = poll.offset
     /\ population' = [population EXCEPT
                         ![ev.who] = scored(@, ev.loc, alerts_triggered)]
     /\ ev' = [ev EXCEPT !.pc = "done", !.alerts_after = poll.count,
                         !.alerts_triggered = alerts_triggered,
                         !.log_after = alert_log,
                         !.missing_after = ~log_present,
                         !.result = returned(population[ev.who], ev.loc,
                                             alerts_triggered)]

\* the instruction numbers of the genome's send instructions
SendPositions(instructions) ==
  {k \in 1..Len(instructions) : instructions[k].op = "send_packet"}

\* which sends raise: none, all of them, the first one only
RaiseDraws(instructions) ==
  LET sends == SendPositions(instructions)
  IN {{}, sends} \cup {{k} : k \in {j \in sends : \A i \in sends : j <= i}}

\* ------------------------------------------------------------ the evaluator on its own
\* Genomes handed to the evaluator: a leading pattern, the rest of the genome
\* being set_ips instructions (which the score does not read), and the
\* genomes random_instructions builds.
EvalPatterns ==
  { <<>>,
    <<SendPacket>>,
    <<SetFlags("S"), SetTtl(128)>>,
    <<SetTtl(128), SetPayloadLength(1500), SetWindowSize(0), SetDelay(50),
      SetFlags("S"), SendPacket>>,
    <<SetTtl(64), SetPayloadLength(200), SetWindowSize(5000), SetDelay(49),
      SendPacket, SendPacket>>,
    <<SetFlags("SA"), SetFlags("SA"), SetFlags(""), SetFlags("RA"), SendPacket>>,
    <<SetTtl(32), SetTtl(128), SetDelay(200), SetDelay(0), SetIpFlags("DF"),
      SetPorts(1024, 80), SendPacket, SendPacket, SendPacket>> }

PatternGenome(pattern) ==
  pattern \o [i \in 1..(PAGE_COUNT * PAGE_SIZE - Len(pattern)) |->
                SetIps("192.168.1.1", TargetIp)]

EvalGenomes ==
  {PatternGenome(p) : p \in EvalPatterns}
    \cup {random_instructions(TargetIp, PortRange, d) : d \in GenomeDraws}

InitEval ==
  /\ \E g \in EvalGenomes :
       population = << [target_ip |-> TargetIp, port_range |-> PortRange,
                        instructions |-> g, fitness |-> Zero, stats |-> NoStats] >>
  /\ log_present \in BOOLEAN
  /\ alert_log \in (IF log_present THEN 0..1 ELSE {0})
  /\ snort_alert_offset = 0
  /\ ev = NoEval
  /\ last = NoOp
  /\ steps = 0
  /\ LoopIdle

EvalBegin ==
  /\ steps < MaxEvals
  /\ evaluate_begin(1)
  /\ steps' = steps + 1
  /\ UNCHANGED <<population, alert_log, log_present, last, loop>>

EvalExecute ==
  /\ ev.pc = "exec"
  /\ \E raises \in RaiseDraws(population[ev.who].instructions) :
       evaluate_execute(raises)
  /\ UNCHANGED <<population, alert_log, log_present, snort_alert_offset, last, steps, loop>>

EvalFinish ==
  /\ evaluate_finish
  /\ UNCHANGED <<alert_log, log_present, last, steps, loop>>

NextEval == AppendAlert \/ EvalBegin \/ EvalExecute \/ EvalFinish

SpecEval == InitEval /\ [][NextEval]_vars

\* ------------------------------------------------------------ the evaluator and a log that goes away
\* SNORT_ALERT_FILE is removed (the IDS stopped, the log rotated away); the
\* next record the IDS appends starts a new file
RemoveLog ==
  /\ log_present
  /\ log_present' = FALSE
  /\ alert_log' = 0
  /\ UNCHANGED <<population, snort_alert_offset, ev, last, steps, loop>>

NextLog == NextEval \/ RemoveLog

SpecLog == InitEval /\ [][NextLog]_vars

\* ------------------------------------------------------------ the operators, applied in any order
\* draws restricted to a few representatives per operator
MutationDrawsOps(individual) ==
  { [hits |-> {1}, roll |-> 0, instr |-> SendPacket],
    [hits |-> {PAGE_COUNT * PAGE_SIZE}, roll |-> 40,
     instr |-> SetIps("192.168.1.1", individual.target_ip)] }

SwapDrawsOps(individual) ==
  { <<0, 1>>, <<Len(individual.instructions) - 1, 0>> }

InitOps ==
  /\ \E d1 \in GenomeDraws :
       \E d2 \in GenomeDraws \ {d1} :
         population = << NewIndividual(TargetIp, PortRange, d1),
                         NewIndividual(TargetIp, PortRange, d2) >>
  /\ alert_log = 0
  /\ log_present = FALSE
  /\ snort_alert_offset = 0
  /\ ev = NoEval
  /\ last = NoOp
  /\ steps = 0
  /\ LoopIdle

OpCrossover ==
  /\ steps < MaxOps
  /\ \E p \in CrossoverPoints(population[1]) :
       /\ population' = crossover(population[1], population[2], p)
       /\ last' = [op |-> "crossover", before |-> population, point |-> p, who |-> 0]
  /\ steps' = steps + 1
  /\ UNCHANGED <<alert_log, log_present, snort_alert_offset, ev, loop>>

OpMutate ==
  /\ steps < MaxOps
  /\ \E w \in 1..2, g \in 0..MAX_GENERATIONS :
       \E draw \in MutationDrawsOps(population[w]) :
         /\ population' = [population EXCEPT
                             ![w] = mutate(@, g, MAX_GENERATIONS, draw)]
         /\ last' = [op |-> "mutate", before |-> population, point |-> g, who |-> w,
                      draw |-> draw, prob |-> mutation_prob(g, MAX_GENERATIONS)]
  /\ steps' = steps + 1
  /\ UNCHANGED <<alert_log, log_present, snort_alert_offset, ev, loop>>

OpSwap ==
  /\ steps < MaxOps
  /\ \E w \in 1..2 :
       \E d \in SwapDrawsOps(population[w]) :
         /\ population' = [population EXCEPT ![w] = swap(@, d[1], d[2])]
         /\ last' = [op |-> "swap", before |-> population, point |-> d[1], who |-> w]
  /\ steps' = steps + 1
  /\ UNCHANGED <<alert_log, log_present, snort_alert_offset, ev, loop>>

NextOps == OpCrossover \/ OpMutate \/ OpSwap

SpecOps == InitOps /\ [][NextOps]_vars

\* ------------------------------------------------------------ mutate with every draw of its vocabulary
\* the target and the port range of the two individuals mutate is called on
MutateTargets == << <<TargetIp, PortRange>>, <<"10.0.0.9", <<20, 22>>>> >>

InitMutate ==
  /\ \E d1 \in GenomeDraws :
       \E d2 \in GenomeDraws \ {d1} :
         population = << NewIndividual(MutateTargets[1][1], MutateTargets[1][2], d1),
                         NewIndividual(MutateTargets[2][1], MutateTargets[2][2], d2) >>
  /\ alert_log = 0
  /\ log_present = FALSE
  /\ snort_alert_offset = 0
  /\ ev = NoEval
  /\ last = NoOp
  /\ steps = 0
  /\ LoopIdle

\* one call mutate(individual, g, MAX_GENERATIONS): random.random() below
\* the probability at the genes of hits (if the probability is above 0.10),
\* random.choice returning any instruction of the vocabulary
OpMutateAny ==
  /\ steps < MaxOps
  /\ last.op = "none"
  /\ \E w \in 1..2, g \in {0, MAX_GENERATIONS - 1, MAX_GENERATIONS} :
       \E instr \in MutationVocabulary(population[w]),
          hits \in {{1}, {2, PAGE_COUNT * PAGE_SIZE}} :
         LET draw == [hits |-> hits, roll |-> 10, instr |-> instr]
         IN /\ population' = [population EXCEPT
                                ![w] = mutate(@, g, MAX_GENERATIONS, draw)]
            /\ last' = [op |-> "mutate", before |-> population, point |-> g, who |-> w,
                        draw |-> draw, prob |-> mutation_prob(g, MAX_GENERATIONS)]
  /\ steps' = steps + 1
  /\ UNCHANGED <<alert_log, log_present, snort_alert_offset, ev, loop>>

SpecMutate == InitMutate /\ [][OpMutateAny]_vars

\* ------------------------------------------------------------ crossover on genomes of any length
\* lengths of the genomes handed to crossover: shorter than a page of
\* crossover, a page and a gene, two pages and a gene, the configured length
CrossLengths == {3, 7, 13, PAGE_COUNT * PAGE_SIZE}

InitCross ==
  /\ \E d1 \in GenomeDraws, length \in CrossLengths :
       \E d2 \in GenomeDraws \ {d1} :
         population =
           << [NewIndividual(TargetIp, PortRange, d1) EXCEPT
                 !.instructions = SubSeq(@, 1, length)],
              [NewIndividual(TargetIp, PortRange, d2) EXCEPT
                 !.instructions = SubSeq(@, 1, length)] >>
  /\ alert_log = 0
  /\ log_present = FALSE
  /\ snort_alert_offset = 0
  /\ ev = NoEval
  /\ last = NoOp
  /\ steps = 0
  /\ LoopIdle

\* line 278 with num_pages = 0: random.randint(0, -1) raises ValueError
\* (empty range), which crossover does not catch; no child is returned
OpCrossoverFails ==
  /\ steps < MaxOps
  /\ CrossoverPoints(population[1]) = {}
  /\ last' = [op |-> "raise", before |-> population, point |-> 0, who |-> 0]
  /\ steps' = steps + 1
  /\ UNCHANGED <<population, alert_log, log_present, snort_alert_offset, ev, loop>>

NextCross == OpCrossover \/ OpCrossoverFails

SpecCross == InitCross /\ [][NextCross]_vars

\* ------------------------------------------------------------ tournament_selection on its own
\* fitness values evaluate_fitness has stored, some of them equal
FitnessDraws == {Zero, <<1, 2>>, One}

\* a list of size evaluated individuals, their fitness as f gives it
EvaluatedPopulation(size, f) ==
  [i \in 1..size |->
     [NewIndividual(TargetIp, PortRange, GenomeDrawSeq[((i - 1) % Len(GenomeDrawSeq)) + 1])
        EXCEPT !.fitness = f[i]]]

\* random.sample(population, tournament_size): tournament_size distinct
\* places of the list, in the order drawn
Samples(size, tournament_size) ==
  {sample \in [1..tournament_size -> 1..size] :
     \A i, j \in 1..tournament_size : i # j => sample[i] # sample[j]}

InitSelect ==
  /\ \E size \in 2..MaxSelectPop :
       \E f \in [1..size -> FitnessDraws] : population = EvaluatedPopulation(size, f)
  /\ alert_log = 0
  /\ log_present = FALSE
  /\ snort_alert_offset = 0
  /\ ev = NoEval
  /\ last = NoOp
  /\ steps = 0
  /\ LoopIdle

\* one call tournament_selection(population, tournament_size)
Select ==
  /\ pc = "none"
  /\ steps < 1
  /\ \E tournament_size \in 2..Len(population) :
       \E sample \in Samples(Len(population), tournament_size) :
         last' = [op |-> "select", before |-> <<>>, point |-> tournament_size, who |-> 0,
                  sample |-> sample,
                  parents |-> tournament_selection(population, tournament_size, sample),
                  winners |-> tournament_winners(population, tournament_size, sample)]
  /\ steps' = steps + 1
  /\ UNCHANGED <<population, alert_log, log_present, snort_alert_offset, ev, loop>>

NextSelect == Select

SpecSelect == InitSelect /\ [][NextSelect]_vars

\* ------------------------------------------------------------ save and replay
\* the genomes saved: genomes random_instructions builds, the genome that
\* sets the SYN flag and sends once, and one of every kind of instruction
\* and of parameter
SavedGenomes ==
  {random_instructions(TargetIp, PortRange, GenomeDrawSeq[i]) : i \in {2, 3}}
    \cup {PatternGenome(<<SetFlags("S"), SendPacket>>),
          PatternGenome(<<SetDelay(135), SetDelay(5), SetDelay(50), SetDelay(200),
                          SetIpFlags("DF"), SetIpFlags(""), SetTtl(128),
                          SetPayloadLength(1500), SetWindowSize(0),
                          SetPorts(65535, 80), SetFlags(""), SetFlags("PA"),
                          SendPacket>>)}

\* Genome files with a line that is no instruction: a tuple that is not
\* closed, after two instructions and as the first line; an empty line
\* between two instructions; and a line that holds a number, after two
\* instructions.
MalformedFiles ==
  LET flags == <<"(", "'", "set_flags", "'", ",", " ", "'", "S", "'", ")", "\n">>
      send == <<"(", "'", "send_packet", "'", ",", " ", "None", ")", "\n">>
      open == <<"(", "'", "set_flags", "'", ",", " ", "'", "S", "'", "\n">>
      number == <<"4", "2", "\n">>
  IN { <<flags, send, open>>, <<open, flags, send>>, <<send, <<"\n">>, send>>,
       <<flags, send, number, send>> }

\* a genome file written by hand: set the SYN flag, send once
TwoLineFile ==
  << <<"(", "'", "set_flags", "'", ",", " ", "'", "S", "'", ")", "\n">>,
     <<"(", "'", "send_packet", "'", ",", " ", "None", ")", "\n">> >>

\* what the target answers to a probe
Responses ==
  {TcpResponse("SA"), TcpResponse("RA"), TcpResponse("R"), TcpResponse("S"),
   OtherResponse}

InitReplay ==
  /\ \E g \in SavedGenomes :
       population = << [target_ip |-> TargetIp, port_range |-> PortRange,
                        instructions |-> g, fitness |-> One, stats |-> NoStats] >>
  /\ alert_log = 0
  /\ log_present = FALSE
  /\ snort_alert_offset = 0
  /\ ev = NoEval
  /\ last = NoOp
  /\ steps = 0
  /\ LoopIdle

\* save_individual(best)
SaveGenome ==
  /\ saved = <<>>
  /\ replay.pc = "none"
  /\ saved' = <<[generation |-> 0, instructions |-> population[1].instructions,
                 lines |-> save_individual(population[1])]>>
  /\ last' = [NoOp EXCEPT !.op = "save"]
  /\ UNCHANGED <<population, alert_log, log_present, snort_alert_offset, ev, steps,
                 pop_size, generation, pc, fitnesses, elites, new_individuals,
                 generation_logs, transport_up, objects, workers, replay>>

\* Replay(...), and the load that opens run; the file is the one saved, or
\* the one written by hand; target_ports is the tuple popos.main passes, or
\* the None of the constructor's default
ReplayLoad ==
  /\ replay.pc = "none"
  /\ \E file \in {f \in {TwoLineFile} \cup MalformedFiles
                            \cup {saved[i].lines : i \in 1..Len(saved)} :
                     ~load_raises(f)},
        target_ports \in {PairValue(IntValue(PortRange[1]), IntValue(PortRange[2])),
                          NoneValue} :
       replay' = [Replay(file, TargetIp, target_ports) EXCEPT
                    !.pc = "run", !.instructions = load_individual(file)]
  /\ last' = [NoOp EXCEPT !.op = "load"]
  /\ UNCHANGED <<population, alert_log, log_present, snort_alert_offset, ev, steps,
                 pop_size, generation, pc, fitnesses, elites, new_individuals,
                 generation_logs, saved, transport_up, objects, workers>>

\* line 75 raising: ast.literal_eval raises SyntaxError on a line, which
\* neither load_individual nor run catches
ReplayLoadFails ==
  /\ replay.pc = "none"
  /\ \E file \in {f \in MalformedFiles : load_raises(f)} :
       replay' = [Replay(file, TargetIp,
                         PairValue(IntValue(PortRange[1]), IntValue(PortRange[2])))
                    EXCEPT !.pc = "error"]
  /\ last' = [NoOp EXCEPT !.op = "raise"]
  /\ UNCHANGED <<population, alert_log, log_present, snort_alert_offset, ev, steps,
                 pop_size, generation, pc, fitnesses, elites, new_individuals,
                 generation_logs, saved, transport_up, objects, workers>>

\* line 77 raising: the next element of the list is no tuple, and
\* "for instr, param in instructions" raises TypeError, which run does not
\* catch
ReplayUnpackFails ==
  /\ replay.pc = "run"
  /\ replay.executed < Len(replay.instructions)
  /\ ~replay.instructions[replay.executed + 1].pair
  /\ replay' = [replay EXCEPT !.pc = "error"]
  /\ last' = [NoOp EXCEPT !.op = "raise"]
  /\ UNCHANGED <<population, alert_log, log_present, snort_alert_offset, ev, steps,
                 pop_size, generation, pc, fitnesses, elites, new_individuals,
                 generation_logs, saved, transport_up, objects, workers>>

\* one instruction of the replay; the target answers at most MaxAnswers of
\* the probes, the others time out
ReplayStep ==
  /\ replay.pc = "run"
  /\ replay.executed < Len(replay.instructions)
  /\ replay.instructions[replay.executed + 1].pair
  /\ \E response \in {NoResponse} \cup (IF steps < MaxAnswers THEN Responses ELSE {}) :
       LET send == replay.instructions[replay.executed + 1].kind = "send_packet"
       IN /\ send \/ response = NoResponse
          /\ replay' = replay_step(replay, response)
          /\ steps' = IF response.received THEN steps + 1 ELSE steps
          /\ last' = [op |-> IF send THEN "send" ELSE "set", before |-> replay.results,
                      point |-> replay.executed + 1, who |-> 0, response |-> response]
  /\ UNCHANGED <<population, alert_log, log_present, snort_alert_offset, ev,
                 pop_size, generation, pc, fitnesses, elites, new_individuals,
                 generation_logs, saved, transport_up, objects, workers>>

\* print_summary, line 97
ReplaySummary ==
  /\ replay.pc = "run"
  /\ replay.executed = Len(replay.instructions)
  /\ replay' = [replay EXCEPT !.pc = "summary"]
  /\ last' = [NoOp EXCEPT !.op = "summary"]
  /\ UNCHANGED <<population, alert_log, log_present, snort_alert_offset, ev, steps,
                 pop_size, generation, pc, fitnesses, elites, new_individuals,
                 generation_logs, saved, transport_up, objects, workers>>

NextReplay ==
  \/ SaveGenome
  \/ ReplayLoad
  \/ ReplayLoadFails
  \/ ReplayStep
  \/ ReplayUnpackFails
  \/ ReplaySummary

SpecReplay == InitReplay /\ [][NextReplay]_vars

\* ------------------------------------------------------------ evolve_population
\* The sizes Population is built with: below, at and above TOURNAMENT_SIZE.
PopSizes == {3, 4, 5}

\* Population.__init__: one call of random_instructions per individual;
\* individual i gets the draws GenomeDrawSeq[order[i]], order going round
NewPopulation(size, order) ==
  [i \in 1..size |->
     NewIndividual(TargetIp, PortRange,
                   GenomeDrawSeq[order[((i - 1) % Len(order)) + 1]])]

\* with and without a genome that scores above FITNESS_THRESHOLD
PopulationDraws == { <<1, 2, 3>>, <<2, 3>> }

\* The draws of one iteration of the breeding loop: the tournament sample,
\* the crossover page, and for each child its mutate and its swap draws.
QuietDraw(size) ==
  [sample |-> <<1, 2, 3, 4>>, point |-> 0,
   m1 |-> [hits |-> {}, roll |-> 0, instr |-> SendPacket],
   m2 |-> [hits |-> {}, roll |-> 0, instr |-> SendPacket],
   s1 |-> <<0, 1>>, s2 |-> <<0, 1>>]

BusyDraw(size) ==
  [sample |-> <<size, size - 1, size - 2, size - 3>>,
   point |-> (PAGE_COUNT * PAGE_SIZE) \div page_size - 1,
   m1 |-> [hits |-> {1}, roll |-> 10, instr |-> SendPacket],
   m2 |-> [hits |-> {PAGE_COUNT * PAGE_SIZE}, roll |-> 40,
           instr |-> SetIps("192.168.1.1", TargetIp)],
   s1 |-> <<PAGE_COUNT * PAGE_SIZE - 1, 0>>, s2 |-> <<1, 0>>]

BreedDraws(size) == {QuietDraw(size), BusyDraw(size)}

LoopInit(sizes, orders) ==
  /\ pop_size \in sizes
  /\ \E order \in orders : population = NewPopulation(pop_size, order)
  /\ alert_log \in {0, 1}
  /\ log_present = TRUE
  /\ snort_alert_offset = 0
  /\ ev = NoEval
  /\ last = NoOp
  /\ steps = 0
  /\ generation = 0
  /\ pc = "evaluate"
  /\ fitnesses = <<>>
  /\ elites = <<>>
  /\ new_individuals = <<>>
  /\ generation_logs = <<>>
  /\ saved = <<>>
  /\ transport_up \in BOOLEAN
  /\ objects = [NoObjects EXCEPT !.population = [i \in 1..pop_size |-> i],
                                 !.allocated = pop_size]
  /\ workers = <<>>
  /\ replay = NoReplay

Init == LoopInit(PopSizes, PopulationDraws)

\* between two generations the transport comes up or goes down
TransportChange ==
  /\ pc = "evaluate"
  /\ fitnesses = <<>>
  /\ ev.pc \in {"idle", "done"}
  /\ generation > 0
  /\ last.op # "transport"
  /\ transport_up' = ~transport_up
  /\ last' = [NoOp EXCEPT !.op = "transport"]
  /\ UNCHANGED <<population, alert_log, log_present, snort_alert_offset, ev, steps,
                 pop_size, generation, pc, fitnesses, elites, new_individuals,
                 generation_logs, saved, objects, workers, replay>>

\* evaluate_population, lines 231-234: the next individual's evaluation starts
EvaluateNext ==
  /\ pc = "evaluate"
  /\ Len(fitnesses) < Len(population)
  /\ evaluate_begin(Len(fitnesses) + 1)
  /\ steps' = steps + 1
  /\ last' = NoOp
  /\ UNCHANGED <<population, alert_log, log_present, loop>>

\* its for loop: every send raises while the transport is down
EvaluateRun ==
  /\ pc = "evaluate"
  /\ ev.pc = "exec"
  /\ evaluate_execute(IF transport_up THEN {}
                      ELSE SendPositions(population[ev.who].instructions))
  /\ UNCHANGED <<population, alert_log, log_present, snort_alert_offset, last, steps,
                 loop>>

\* its score; line 235 appends the value returned
EvaluateScore ==
  /\ pc = "evaluate"
  /\ evaluate_finish
  /\ fitnesses' = Append(fitnesses, ev'.result)
  /\ UNCHANGED <<alert_log, log_present, last, steps, pop_size, generation, pc,
                 elites, new_individuals, generation_logs, saved, transport_up,
                 objects, workers, replay>>

\* lines 345-376 once every individual is evaluated: the generation's record,
\* then either the success exit (save and break) or the elites
Report ==
  LET best == population[best_index(population)]
  IN /\ pc = "evaluate"
     /\ Len(fitnesses) = Len(population)
     /\ ev.pc \in {"idle", "done"}
     /\ generation_logs' =
          Append(generation_logs, generation_record(generation, best, fitnesses))
     /\ IF success(best, generation)
        THEN /\ saved' = Append(saved, [generation |-> generation,
                                        instructions |-> best.instructions,
                                        lines |-> save_individual(best)])
             /\ pc' = "done"
             /\ UNCHANGED <<elites, new_individuals, objects>>
        ELSE /\ elites' = select_elites(population)
             /\ new_individuals' = select_elites(population)
             /\ objects' = [objects EXCEPT
                              !.elites = elite_objects(population, objects.population),
                              !.new_individuals =
                                 elite_objects(population, objects.population)]
             /\ pc' = "breed"
             /\ saved' = saved
     /\ last' = [NoOp EXCEPT !.op = "report"]
     /\ UNCHANGED <<population, alert_log, log_present, snort_alert_offset, ev, steps,
                    pop_size, generation, fitnesses, transport_up, workers, replay>>

\* lines 377-384: one iteration of the while loop, its draws among draws
BreedWith(draws) ==
  /\ pc = "breed"
  /\ Len(new_individuals) < Len(population)
  /\ Len(population) >= TOURNAMENT_SIZE
  /\ \E d \in draws :
       LET parents == tournament_winners(population, TOURNAMENT_SIZE, d.sample)
           children == breed_pair(population, generation, d)
           child1 == deepcopy_object(objects.population[parents[1]],
                                     objects.allocated + 1)
           child2 == deepcopy_object(objects.population[parents[2]],
                                     objects.allocated + 2)
           seen(list, ids) == written(list, ids, child1, children[1], child2, children[2])
       IN /\ population' = seen(population, objects.population)
          /\ elites' = seen(elites, objects.elites)
          /\ new_individuals' =
               seen(new_individuals, objects.new_individuals) \o children
          /\ objects' = [objects EXCEPT !.new_individuals = @ \o <<child1, child2>>,
                                        !.allocated = @ + 2]
          /\ last' = [op |-> "breed", before |-> <<>>, point |-> d.point, who |-> 0,
                      parents |-> parents, draw |-> d,
                      prob |-> mutation_prob(generation, MAX_GENERATIONS)]
  /\ UNCHANGED <<alert_log, log_present, snort_alert_offset, ev, steps,
                 pop_size, generation, pc, fitnesses, generation_logs, saved,
                 transport_up, workers, replay>>

BreedPair == BreedWith(BreedDraws(Len(population)))

\* line 325 with fewer individuals than TOURNAMENT_SIZE: random.sample raises
\* ValueError, which nothing catches
BreedFails ==
  /\ pc = "breed"
  /\ Len(new_individuals) < Len(population)
  /\ Len(population) < TOURNAMENT_SIZE
  /\ pc' = "error"
  /\ last' = [NoOp EXCEPT !.op = "raise"]
  /\ UNCHANGED <<population, alert_log, log_present, snort_alert_offset, ev, steps,
                 pop_size, generation, fitnesses, elites, new_individuals,
                 generation_logs, saved, transport_up, objects, workers, replay>>

\* line 386, and the for loop's step to the next generation or its end
Replace ==
  /\ pc = "breed"
  /\ Len(new_individuals) >= Len(population)
  /\ population' = truncated(new_individuals, Len(population))
  /\ objects' = [objects EXCEPT
                   !.population = truncated(objects.new_individuals, Len(population))]
  /\ last' = [op |-> "replace", before |-> <<>>, point |-> Len(new_individuals),
              who |-> 0]
  /\ fitnesses' = <<>>
  /\ workers' = <<>>
  /\ IF more_generations(generation)
     THEN generation' = generation + 1 /\ pc' = "evaluate"
     ELSE generation' = generation /\ pc' = "done"
  /\ UNCHANGED <<alert_log, log_present, snort_alert_offset, ev, steps, pop_size,
                 elites, new_individuals, generation_logs, saved, transport_up,
                 replay>>

Next ==
  \/ TransportChange
  \/ EvaluateNext
  \/ EvaluateRun
  \/ EvaluateScore
  \/ Report
  \/ BreedPair
  \/ BreedFails
  \/ Replace

Spec == Init /\ [][Next]_vars

\* ------------------------------------------------------------ PARALLEL_EVAL = True
\* The generation loop with config.PARALLEL_EVAL set: line 339 calls
\* central_fitness_controller, one worker process per individual, which works
\* on a pickled copy: the objects of the population are not touched.
ControllerStep ==
  /\ pc = "evaluate"
  /\ Len(fitnesses) < Len(population)
  /\ \E outcome \in WorkerOutcomes :
       /\ fitnesses' = controller_result(fitnesses, outcome)
       /\ workers' = Append(workers, outcome)
  /\ steps' = steps + 1
  /\ last' = NoOp
  /\ UNCHANGED <<population, alert_log, log_present, snort_alert_offset, ev,
                 pop_size, generation, pc, elites, new_individuals, generation_logs,
                 saved, transport_up, objects, replay>>

NextParallel ==
  \/ ControllerStep
  \/ Report
  \/ BreedPair
  \/ BreedFails
  \/ Replace

SpecParallel == Init /\ [][NextParallel]_vars

\* ------------------------------------------------------------ larger populations
\* Sizes at which int(size * ELITE_PERCENT) is 0, is 1 with a fraction cut
\* off, and is 2.
ElitePopSizes == {3, 21, 40}

\* one draw per iteration of the breeding loop, by the number of pairs bred
PairDraws(size, bred) ==
  {IF (bred \div 2) % 2 = 0 THEN QuietDraw(size) ELSE BusyDraw(size)}

InitElite == LoopInit(ElitePopSizes, { <<2, 3, 1>> })

BreedPairElite ==
  BreedWith(PairDraws(Len(population), Len(new_individuals) - Len(elites)))

NextElite ==
  \/ TransportChange
  \/ EvaluateNext
  \/ EvaluateRun
  \/ EvaluateScore
  \/ Report
  \/ BreedPairElite
  \/ BreedFails
  \/ Replace

SpecElite == InitElite /\ [][NextElite]_vars

\* ------------------------------------------------------------ tournaments that cannot be held
\* tournament sizes outside 2..len(population): random.sample raises
\* ValueError for a negative size and for one above len(population); with
\* size 0 or 1 the sample is drawn and sorted_competitors[1] (for 0,
\* sorted_competitors[0]) raises IndexError.  Nothing is returned.
SelectFails ==
  /\ pc = "none"
  /\ steps < 1
  /\ \E tournament_size \in {-1, 0, 1, Len(population) + 1} :
       last' = [op |-> "raise", before |-> <<>>, point |-> tournament_size, who |-> 0]
  /\ steps' = steps + 1
  /\ UNCHANGED <<population, alert_log, log_present, snort_alert_offset, ev, loop>>

\* --pop_size up to TOURNAMENT_SIZE
SmallPopSizes == 1..TOURNAMENT_SIZE

\* tournament_selection called on its own, or evolve_population on a small
\* population
InitTournament == InitSelect \/ LoopInit(SmallPopSizes, PopulationDraws)

NextTournament ==
  \/ Select
  \/ SelectFails
  \/ EvaluateNext
  \/ EvaluateRun
  \/ EvaluateScore
  \/ Report
  \/ BreedPair
  \/ BreedFails
  \/ Replace

SpecTournament == InitTournament /\ [][NextTournament]_vars

\* ------------------------------------------------------------ claims
GenomeLength == PAGE_COUNT * PAGE_SIZE

\* C2: every genome built by random_instructions has length
\* PAGE_COUNT * PAGE_SIZE, and so has every genome reached from such genomes
\* by crossover, mutate and swap applied in any order.
C2_LengthPreserved ==
  \A w \in 1..Len(population) : Len(population[w].instructions) = GenomeLength

\* a crossover, mutate or swap changed a genome into one random_instructions
\* does not build
C2_Witness ==
  /\ steps = 2
  /\ last.op = "swap"
  /\ last.before # population
  /\ \E w \in 1..2 : population[w].instructions
                        \notin {random_instructions(TargetIp, PortRange, d) : d \in GenomeDraws}

\* the children are the parents with the genes of page p, a page of PAGE_SIZE
\* genes, exchanged
SwapsConfigPage(parentA, parentB, childA, childB, p) ==
  \A i \in 0..(GenomeLength - 1) :
    IF p * PAGE_SIZE <= i /\ i < (p + 1) * PAGE_SIZE
    THEN /\ childA.instructions[i + 1] = parentB.instructions[i + 1]
         /\ childB.instructions[i + 1] = parentA.instructions[i + 1]
    ELSE /\ childA.instructions[i + 1] = parentA.instructions[i + 1]
         /\ childB.instructions[i + 1] = parentB.instructions[i + 1]

\* C6: crossover swaps, between the two children, exactly the genes of one
\* page of PAGE_SIZE genes, page p of the PAGE_COUNT pages of the genome, and
\* leaves every other gene as in the respective parent.
C6_CrossoverSwapsOneConfigPage ==
  last.op = "crossover" =>
    \E p \in 0..(PAGE_COUNT - 1) :
      SwapsConfigPage(last.before[1], last.before[2], population[1], population[2], p)

\* C1: the alerts_triggered of an evaluation is the number of alert records
\* appended to the log between its poll before and its poll after, whatever
\* was appended before the evaluation; it is never negative.
C1_AlertsAreThoseOfTheEvaluation ==
  ev.pc = "done" =>
    /\ ev.alerts_triggered = ev.log_after - ev.log_before
    /\ ev.alerts_triggered >= 0

\* a second evaluation, records in the log before it and appended during it
C1_Witness ==
  /\ ev.pc = "done"
  /\ steps = 2
  /\ ev.log_before > 0
  /\ ev.log_after > ev.log_before

InUnitInterval(f) == RLe(Zero, f) /\ RLe(f, One)

\* C3: the fitness of an individual is 0 at creation and in [0, 1] ever
\* after, and so is every value evaluate_fitness returns.
C3_FitnessInUnitInterval ==
  /\ \A w \in 1..Len(population) : InUnitInterval(population[w].fitness)
  /\ ev.pc = "done" => InUnitInterval(ev.result)
  /\ steps = 0 => \A w \in 1..Len(population) : population[w].fitness = Zero

\* an evaluation with alerts_triggered <= probes sent whose unclamped score
\* exceeds 1
C3_Witness ==
  /\ ev.pc = "done"
  /\ ev.loc.sent_packets > 0
  /\ ev.alerts_triggered >= 0
  /\ ev.alerts_triggered <= ev.loc.sent_packets
  /\ RLt(One, raw_fitness(population[ev.who].instructions, ev.loc, ev.alerts_triggered))
  /\ population[ev.who].fitness = One

\* C4: an evaluation in which no probe was sent (no send instruction, or
\* every send failed) sets the fitness to 0 and returns 0.
C4_NoProbeGivesZero ==
  (ev.pc = "done" /\ ev.loc.sent_packets = 0) =>
    (population[ev.who].fitness = Zero /\ ev.result = Zero)

\* every send of the genome failed, in the re-evaluation of an individual
\* that had a positive fitness, alerts having been counted
C4_Witness ==
  /\ ev.pc = "done"
  /\ ev.loc.sent_packets = 0
  /\ ev.raises # {}
  /\ ev.fitness_before # Zero
  /\ ev.alerts_triggered # 0
  /\ population[ev.who].fitness = Zero

\* the genome without any send instruction, other instructions present
C4_WitnessNoSend ==
  /\ ev.pc = "done"
  /\ SendPositions(population[ev.who].instructions) = {}
  /\ population[ev.who].instructions[1].op = "set_flags"

\* The terms of the score, from the genome, in hundredths where they are
\* multiples of 0.01:
ParamsSum(g, op) ==
  SumSeq([i \in 1..Len(g) |-> IF g[i].op = op THEN g[i].n ELSE 0])
ParamsCount(g, op) == Cardinality({i \in 1..Len(g) : g[i].op = op})

\* 5 (hundredths) if the category has instructions and its mean passes the test
MeanAbove(sum, count, bound) == IF count > 0 /\ sum > bound * count THEN 5 ELSE 0
MeanBelow(sum, count, bound) == IF count > 0 /\ sum < bound * count THEN 5 ELSE 0
MeanAtLeast(sum, count, bound) == IF count > 0 /\ sum >= bound * count THEN 5 ELSE 0

MorphologyHundredths(g) ==
  MeanAbove(ParamsSum(g, "set_ttl"), ParamsCount(g, "set_ttl"), 64)
  + MeanAbove(ParamsSum(g, "set_payload_length"),
              ParamsCount(g, "set_payload_length"), 200)
  + MeanBelow(ParamsSum(g, "set_window_size"), ParamsCount(g, "set_window_size"), 5000)
  + MeanAtLeast(ParamsSum(g, "set_delay"), ParamsCount(g, "set_delay"), 50)

PenaltyTable(f) ==
  CASE f \in {"", "F", "PA"} -> 1
    [] f \in {"SF", "RA", "SA", "FA"} -> 2
    [] OTHER -> 0

PenaltyHundredths(g) ==
  SumSeq([i \in 1..Len(g) |-> IF g[i].op = "set_flags" THEN PenaltyTable(g[i].s) ELSE 0])

DistinctFlags(g) == Cardinality({g[i].s : i \in {j \in 1..Len(g) : g[j].op = "set_flags"}})

Clamped(num, den) ==
  IF num <= 0 THEN Zero ELSE IF num >= den THEN One ELSE Rat(num, den)

\* the score as a fraction over 100 * sent * flags, where flags is the number
\* of flag instructions (1 if there is none, the entropy bonus then being 0),
\* distinct the number of distinct flag values and fixed the morphology bonus
\* less the flag penalty, in hundredths
ScoreOver(sent, alerts, flags, distinct, fixed) ==
  Clamped(100 * flags * (sent - alerts) + sent * flags * fixed + 5 * sent * distinct,
          100 * flags * sent)

ExpectedFitness(g, sent, alerts) ==
  ScoreOver(sent, alerts,
            IF ParamsCount(g, "set_flags") = 0 THEN 1 ELSE ParamsCount(g, "set_flags"),
            DistinctFlags(g), MorphologyHundredths(g) - PenaltyHundredths(g))

\* C5: with at least one probe sent the fitness returned and stored is
\* clamp(base + morphology bonus + entropy bonus - flag penalty, 0, 1), with
\* base = 1 - alerts_triggered / probes sent, 0.05 for each of mean TTL > 64,
\* mean payload > 200, mean window < 5000 and mean delay >= 0.5 (a category
\* without instructions earning nothing), entropy bonus 0.05 * distinct flag
\* values / flag instructions, and the penalty of each flag instruction from
\* the table; one send, no alert and nothing else gives exactly 1.
C5_FitnessFormula ==
  (ev.pc = "done" /\ ev.loc.sent_packets > 0) =>
    LET g == population[ev.who].instructions
        sent == Cardinality(SendPositions(g) \ ev.raises)
    IN /\ ev.result = ExpectedFitness(g, sent, ev.alerts_triggered)
       /\ population[ev.who].fitness = ev.result
       /\ (g = PatternGenome(<<SendPacket>>) /\ ev.alerts_triggered = 0)
             => ev.result = One

\* three probes sent, alerts counted, no window instruction: a score strictly
\* between 0 and 1
C5_Witness ==
  /\ ev.pc = "done"
  /\ ev.loc.sent_packets = 3
  /\ ev.alerts_triggered > 0
  /\ ParamsCount(population[ev.who].instructions, "set_window_size") = 0
  /\ RLt(Zero, ev.result) /\ RLt(ev.result, One)

\* ---- the generation loop
MaxFitness(individuals) ==
  CHOOSE f \in {individuals[i].fitness : i \in 1..Len(individuals)} :
    \A i \in 1..Len(individuals) : RLe(individuals[i].fitness, f)

\* a generation's record meets the success condition
Qualifies(record) ==
  RLe(FITNESS_THRESHOLD, record.best_fitness) /\ record.generation >= MIN_GENERATIONS

Succeeded == saved # <<>>

\* C7: the loop stops with success at the first generation whose best
\* fitness is at least FITNESS_THRESHOLD and whose number is at least
\* MIN_GENERATIONS, and only there; the genome of a maximum-fitness individual
\* of that generation is then saved and nothing is bred or evaluated after
\* it; a generation below MIN_GENERATIONS never stops the run.
C7_SuccessStop ==
  /\ \A k \in 1..Len(generation_logs) :
       /\ generation_logs[k].best_fitness = MaxFitness(population)
            \/ k < Len(generation_logs) \/ pc \notin {"done", "breed", "error"}
            \/ (pc = "done" /\ ~Succeeded)
       /\ Qualifies(generation_logs[k]) =>
            (k = Len(generation_logs) /\ Succeeded /\ pc = "done")
  /\ Succeeded =>
       /\ pc = "done"
       /\ Len(saved) = 1
       /\ saved[1].generation = generation
       /\ generation >= MIN_GENERATIONS
       /\ RLe(FITNESS_THRESHOLD, MaxFitness(population))
       /\ \E i \in 1..Len(population) :
            /\ population[i].fitness = MaxFitness(population)
            /\ population[i].instructions = saved[1].instructions
       /\ Len(generation_logs) = generation + 1
       /\ steps = (generation + 1) * pop_size
       /\ Len(fitnesses) = pop_size
       /\ ev.pc = "done"

\* success in generation 2, generation 0 having reached the threshold without
\* stopping the run and generation 1 having missed it
C7_Witness ==
  /\ Succeeded
  /\ generation = 2
  /\ RLe(FITNESS_THRESHOLD, generation_logs[1].best_fitness)
  /\ RLt(generation_logs[2].best_fitness, FITNESS_THRESHOLD)

C9_SizeConstant ==
  /\ Len(population) = pop_size
  /\ Len(new_individuals) <= pop_size + 1

\* a replacement that cut one child off (even size), after an exact one
C9_Witness ==
  /\ last.op = "replace"
  /\ last.point = pop_size + 1
  /\ generation = 2

\* an odd size refilled exactly
C9_WitnessOdd ==
  /\ last.op = "replace"
  /\ last.point = pop_size
  /\ pop_size = 5
  /\ generation = 2

\* ------------------------------------------------------------ C10
\* the greatest k with k <= num / den, and the least k with k >= num / den
FloorOf(num, den) == CHOOSE k \in 0..num : k * den <= num /\ num < (k + 1) * den
CeilOf(num, den) == CHOOSE k \in 0..num : (k - 1) * den < num /\ num <= k * den
AtLeastOne(k) == IF k < 1 THEN 1 ELSE k

\* how often x occurs in the list s
Occurrences(s, x) == Cardinality({i \in 1..Len(s) : s[i] = x})

\* chosen is made of the individuals of highest fitness of individuals: each
\* of its members is a member of individuals (as often at most), and every
\* individual left out scores no more than any chosen one
HighestOf(chosen, individuals) ==
  /\ \A i \in 1..Len(chosen) :
       Occurrences(chosen, chosen[i]) <= Occurrences(individuals, chosen[i])
  /\ \A i \in 1..Len(chosen) :
       Cardinality({j \in 1..Len(individuals) :
                      RLt(chosen[i].fitness, individuals[j].fitness)})
         = Cardinality({j \in 1..Len(chosen) :
                          RLt(chosen[i].fitness, chosen[j].fitness)})

\* the elites have just been selected (the generation did not end the run)
ElitesSelected == pc = "breed" /\ last.op = "report"

\* C10, as stated: in every generation that does not end the run the elites
\* number max(1, ceil(population_size * elite_percent)) and are the
\* individuals of highest fitness of the current population.
C10_ElitesCeil ==
  ElitesSelected =>
    /\ Len(elites) = AtLeastOne(CeilOf(Len(population) * ELITE_PERCENT[1],
                                       ELITE_PERCENT[2]))
    /\ HighestOf(elites, population)

\* C10, amended: in every generation that does not end the run the elites
\* number max(1, floor(population_size * elite_percent)), they are the
\* individuals of highest fitness of the current population, and they open
\* the next population unchanged.
C10_ElitesFloor ==
  /\ ElitesSelected =>
       /\ Len(elites) = AtLeastOne(FloorOf(Len(population) * ELITE_PERCENT[1],
                                           ELITE_PERCENT[2]))
       /\ HighestOf(elites, population)
       /\ new_individuals = elites
  /\ last.op = "replace" =>
       /\ Len(elites) = AtLeastOne(FloorOf(Len(population) * ELITE_PERCENT[1],
                                           ELITE_PERCENT[2]))
       /\ SubSeq(population, 1, Len(elites)) = elites

\* two elites out of forty, of which others score less, carried into the
\* next population
C10_Witness ==
  /\ last.op = "replace"
  /\ Len(population) = 40
  /\ Len(elites) = 2
  /\ SubSeq(population, 1, 2) = elites
  /\ \E i \in 1..Len(generation_logs) :
       RLt(Zero, generation_logs[i].best_fitness)

\* twenty-one individuals: the product 1.05 is cut to one elite
C10_WitnessFraction ==
  /\ ElitesSelected
  /\ Len(population) = 21
  /\ Len(elites) = 1
  /\ \E j \in 1..Len(population) : RLt(population[j].fitness, elites[1].fitness)

\* ------------------------------------------------------------ C11
\* the place competitor c (a place of the population) has in the sample
SampledAt(sample, c) == CHOOSE i \in 1..Len(sample) : sample[i] = c

\* C11: tournament_selection with 2 <= k <= population size returns two
\* distinct individuals, both among the k sampled competitors, the first's
\* fitness at least the second's and no other competitor's fitness above the
\* second's; of competitors of equal fitness the one sampled earlier ranks
\* first.
C11_TournamentTopTwo ==
  last.op = "select" =>
    LET sample == last.sample
        first == last.winners[1]
        second == last.winners[2]
        sampled == {sample[i] : i \in 1..last.point}
        fit(c) == population[c].fitness
    IN /\ first # second
       /\ {first, second} \subseteq sampled
       /\ last.parents = <<population[first], population[second]>>
       /\ RLe(fit(second), fit(first))
       /\ \A c \in sampled \ {first, second} : RLe(fit(c), fit(second))
       /\ fit(first) = fit(second) => SampledAt(sample, first) < SampledAt(sample, second)
       /\ \A c \in sampled \ {first, second} :
            /\ fit(c) = fit(first) => SampledAt(sample, first) < SampledAt(sample, c)
            /\ fit(c) = fit(second) => SampledAt(sample, second) < SampledAt(sample, c)

\* three of four individuals sampled, out of list order, all of one fitness
\* that the fourth exceeds: the two sampled first are returned
C11_Witness ==
  /\ last.op = "select"
  /\ Len(population) = 4
  /\ last.point = 3
  /\ last.sample = <<3, 1, 2>>
  /\ last.winners = <<3, 1>>
  /\ population[1].fitness = population[2].fitness
  /\ population[2].fitness = population[3].fitness
  /\ RLt(population[3].fitness, population[4].fitness)

\* ------------------------------------------------------------ C12
\* C12: mutate replaces each gene with probability
\* base_mutation_rate * (1 - current_gen / max_gen): the base rate at
\* current_gen = 0, and 0 at current_gen = max_gen, where mutate returns the
\* genome unchanged at every position.
C12_MutationProbability ==
  last.op = "mutate" =>
    LET before == last.before[last.who].instructions
        after == population[last.who].instructions
        replaced == {i \in 1..Len(before) : RLt(RollAt(last.draw, i), last.prob)}
    IN /\ last.prob[1] * DEFAULT_MUTATION_RATE[2] * MAX_GENERATIONS
            = DEFAULT_MUTATION_RATE[1] * (MAX_GENERATIONS - last.point) * last.prob[2]
       /\ last.point = 0 =>
            last.prob[1] * DEFAULT_MUTATION_RATE[2] = DEFAULT_MUTATION_RATE[1] * last.prob[2]
       /\ last.point = MAX_GENERATIONS => (last.prob = Zero /\ after = before)
       /\ \A i \in 1..Len(before) :
            after[i] = IF i \in replaced THEN last.draw.instr ELSE before[i]

\* current_gen = max_gen and random.random() returning 0.0 at a gene that the
\* replacement would have changed: the genome is as it was
C12_Witness ==
  /\ last.op = "mutate"
  /\ last.point = MAX_GENERATIONS
  /\ last.draw.roll = 0
  /\ \E i \in last.draw.hits : last.before[last.who].instructions[i] # last.draw.instr
  /\ population = last.before

\* current_gen = 0: a roll below the base rate replaces the gene
C12_WitnessBaseRate ==
  /\ last.op = "mutate"
  /\ last.point = 0
  /\ last.draw.roll = 40
  /\ population # last.before

\* ------------------------------------------------------------ C13
Tallies(results) == results.open + results.closed + results.filtered + results.unknown

\* the tally that stands for a response: SYN+ACK, RST+ACK, none, any other
TallyFor(response) ==
  IF ~response.received THEN "filtered"
  ELSE IF response.tcp /\ response.flags = "SA" THEN "open"
  ELSE IF response.tcp /\ response.flags = "RA" THEN "closed"
  ELSE "unknown"

SendsAmong(tuples, k) == Cardinality({i \in 1..k : tuples[i].kind = "send_packet"})

\* C13: in a replay every send instruction executed increments exactly one
\* of the tallies open, closed, filtered and unknown: open iff the response
\* is SYN+ACK, closed iff it is RST+ACK, filtered iff none came, unknown for
\* any other; the tallies sum to the send instructions executed, at the end
\* to those of the genome; the file that sets S and sends once, answered
\* with SYN+ACK, gives open = 1 and 0 for the others.
C13_OneTallyPerSend ==
  replay.pc \in {"run", "summary"} =>
    /\ Tallies(replay.results) = SendsAmong(replay.instructions, replay.executed)
    /\ Len(replay.probes) = Tallies(replay.results)
    /\ replay.pc = "summary" =>
         Tallies(replay.results) = SendsAmong(replay.instructions, Len(replay.instructions))
    /\ last.op = "send" =>
         \A tally \in {"open", "closed", "filtered", "unknown"} :
           replay.results[tally] =
             last.before[tally] + (IF tally = TallyFor(last.response) THEN 1 ELSE 0)
    /\ last.op = "set" => replay.results = last.before
    /\ (replay.instruction_file = TwoLineFile /\ last.op = "send"
          /\ last.response = TcpResponse("SA")) =>
         replay.results = [open |-> 1, closed |-> 0, filtered |-> 0, unknown |-> 0]

\* the two-line file replayed to its summary, its probe answered with
\* SYN+ACK: open 1, the others 0
C13_Witness ==
  /\ replay.pc = "summary"
  /\ replay.instruction_file = TwoLineFile
  /\ Len(replay.instructions) = 2
  /\ replay.probes = <<[src_ip |-> SOURCE_IP, src_port |-> DEFAULT_SRC_PORT,
                        flags |-> "S", dst_ip |-> TargetIp,
                        dst_port |-> IntValue(DEFAULT_PORT)]>>
  /\ replay.results = [open |-> 1, closed |-> 0, filtered |-> 0, unknown |-> 0]

\* a saved genome replayed to its summary, three of the tallies not 0
C13_WitnessMixed ==
  /\ replay.pc = "summary"
  /\ Len(replay.instructions) = PAGE_COUNT * PAGE_SIZE
  /\ replay.results.closed > 0
  /\ replay.results.unknown > 0
  /\ replay.results.filtered > 0

\* ------------------------------------------------------------ C14
\* C14: load_individual applied to the file save_individual wrote gives a
\* sequence as long as the genome saved whose i-th element has the kind and
\* the parameter value of the i-th instruction, for the nine kinds of
\* instruction and parameters None, strings (the empty one too), pairs,
\* integers and two-decimal delays.
C14_SaveLoadRoundTrip ==
  (replay.pc # "none" /\ saved # <<>> /\ replay.instruction_file = saved[1].lines) =>
    /\ Len(replay.instructions) = Len(saved[1].instructions)
    /\ \A i \in 1..Len(saved[1].instructions) :
         /\ replay.instructions[i].kind = saved[1].instructions[i].op
         /\ replay.instructions[i].param = param_of(saved[1].instructions[i])

\* a genome of all nine kinds loaded from the file it was saved to, with an
\* empty string, a pair of strings, a pair of integers, None and delays of
\* 1.35, 0.05 and 2.0 seconds
C14_Witness ==
  /\ last.op = "load"
  /\ saved # <<>>
  /\ replay.instruction_file = saved[1].lines
  /\ {replay.instructions[i].kind : i \in 1..Len(replay.instructions)}
       = {"set_flags", "set_ips", "set_ports", "set_ttl", "set_window_size",
          "set_payload_length", "set_ip_flags", "set_delay", "send_packet"}
  /\ {StrValue(""), NoneValue, FloatValue(135), FloatValue(5), FloatValue(200),
      PairValue(IntValue(65535), IntValue(80)),
      PairValue(StrValue("192.168.1.1"), StrValue(TargetIp))}
       \subseteq {replay.instructions[i].param : i \in 1..Len(replay.instructions)}

\* ------------------------------------------------------------ C15
\* the two children of the latest iteration of the breeding loop, had mutate
\* replaced no gene: the crossover of the parents, swapped
BredWithoutMutation ==
  LET crossed == crossover(population[last.parents[1]], population[last.parents[2]],
                           last.draw.point)
  IN <<swap(crossed[1], last.draw.s1[1], last.draw.s1[2]),
       swap(crossed[2], last.draw.s2[1], last.draw.s2[2])>>

\* C15: in the generation loop the mutation probability of the breeding is
\* the base rate in generation 0 and is 0 in the final generation of the run
\* (index MAX_GENERATIONS - 1), where breeding replaces no gene by mutation.
C15_NoMutationInFinalGeneration ==
  last.op = "breed" =>
    /\ generation = 0 =>
         last.prob[1] * DEFAULT_MUTATION_RATE[2] = DEFAULT_MUTATION_RATE[1] * last.prob[2]
    /\ generation = MAX_GENERATIONS - 1 =>
         /\ last.prob = Zero
         /\ SubSeq(new_individuals, Len(new_individuals) - 1, Len(new_individuals))
              = BredWithoutMutation

\* ------------------------------------------------------------ C16
\* the evaluation step of the generation is over
Evaluated == Len(workers) = Len(population) /\ pc \in {"evaluate", "breed"}

\* C16: in bounded-parallel mode, after the evaluation step every individual
\* whose worker ended within the timeout has its fitness and its stats set
\* by the evaluation of its genome in that generation, and the fitness is the
\* one in the returned list.
C16_ParallelSetsFitness ==
  Evaluated =>
    \A i \in 1..Len(population) :
      workers[i] # "TimeoutError" =>
        /\ population[i].stats.present
        /\ population[i].stats.packets
             = Cardinality(SendPositions(population[i].instructions))
        /\ population[i].fitness = fitnesses[i]

\* ------------------------------------------------------------ C17
\* C17: in bounded-parallel mode a worker that times out or raises gives
\* its individual the fitness 0 for the generation; the individuals after it
\* are evaluated all the same, the list returned has one entry per
\* individual, and the generation loop goes on to its end.
C17_WorkerFailureIsNotFatal ==
  /\ Len(fitnesses) = Len(workers)
  /\ Len(workers) <= Len(population)
  /\ \A i \in 1..Len(workers) :
       workers[i] \in {"TimeoutError", "TypeError"} =>
         (fitnesses[i] = Zero /\ population[i].fitness = Zero)
  /\ pc = "breed" => Len(fitnesses) = Len(population)
  /\ last.op = "report" => Len(fitnesses) = Len(population)
  /\ pc = "error" => pop_size < TOURNAMENT_SIZE
  /\ pc = "done" => Len(generation_logs) = MAX_GENERATIONS

\* the last generation evaluated, its first worker timed out and a later one
\* raised, every individual evaluated and the breeding under way
C17_Witness ==
  /\ generation = MAX_GENERATIONS - 1
  /\ pc = "breed"
  /\ Len(workers) = Len(population)
  /\ workers[1] = "TimeoutError"
  /\ workers[Len(workers)] = "TypeError"
  /\ Len(new_individuals) > Len(elites)

\* a run that went through every generation
C17_WitnessDone ==
  /\ pc = "done"
  /\ Len(generation_logs) = MAX_GENERATIONS
  /\ steps = MAX_GENERATIONS * pop_size

\* ------------------------------------------------------------ C18
Genomes(individuals) == [i \in DOMAIN individuals |-> individuals[i].instructions]

ObjectsOf(ids) == {ids[i] : i \in DOMAIN ids}

\* the place of an object in the current population
PlaceOf(object) == CHOOSE k \in DOMAIN objects.population : objects.population[k] = object

\* C18: no step of the evaluation or of the breeding changes the genome of an
\* individual of the current population: a pair is bred on fresh copies, so
\* its parents, the elites and the individuals bred before keep their
\* genomes, and no child shares its storage with the population; the
\* replacement puts each elite in the next generation with the genome it had
\* in the population it was evaluated in.
C18_BreedingLeavesPopulation ==
  [][/\ ~(pc = "breed" /\ pc' \in {"evaluate", "done"}) =>
          Genomes(population') = Genomes(population)
     /\ (pc = "breed" /\ pc' = "breed") =>
          /\ population' = population
          /\ elites' = elites
          /\ SubSeq(new_individuals', 1, Len(new_individuals)) = new_individuals
          /\ \A i \in (Len(new_individuals) + 1)..Len(new_individuals') :
               /\ objects'.new_individuals[i] \notin ObjectsOf(objects.population)
               /\ objects'.new_individuals[i] \notin ObjectsOf(objects.new_individuals)
               /\ \A j \in DOMAIN new_individuals' :
                    objects'.new_individuals[j] = objects'.new_individuals[i] => j = i
     /\ (pc = "breed" /\ pc' \in {"evaluate", "done"}) =>
          \A j \in 1..Len(elites) :
            j <= Len(population') =>
              /\ objects'.population[j] = objects.elites[j]
              /\ objects.elites[j] \in ObjectsOf(objects.population)
              /\ population'[j].instructions
                   = population[PlaceOf(objects.elites[j])].instructions
    ]_vars

\* the second pair of a generation bred, its first parent an elite and its
\* children unlike that parent
C18_Witness ==
  /\ pc = "breed"
  /\ last.op = "breed"
  /\ Len(new_individuals) >= Len(elites) + 4
  /\ objects.population[last.parents[1]] \in ObjectsOf(objects.elites)
  /\ \A i \in {Len(new_individuals) - 1, Len(new_individuals)} :
       new_individuals[i].instructions # population[last.parents[1]].instructions

\* the replacement done, an elite at the head of the next generation
C18_WitnessReplaced ==
  /\ last.op = "replace"
  /\ generation > 0
  /\ Len(elites) > 0
  /\ objects.population[1] = objects.elites[1]
  /\ population[1].instructions = elites[1].instructions

\* ------------------------------------------------------------ C19
\* the parameters of the genome's instructions of one kind, in genome order
ParamsOf(instructions, op) ==
  LET at == {k \in 1..Len(instructions) : instructions[k].op = op}
      nth(i) == CHOOSE k \in at : Cardinality({j \in at : j < k}) = i - 1
  IN [i \in 1..Cardinality(at) |-> instructions[nth(i)].n]

FailedSends == ev.raises \cap SendPositions(population[ev.who].instructions)

\* C19: a send that fails during an evaluation is not counted as sent, the
\* instructions after it are executed in order all the same, and the
\* evaluation goes on to its poll after and to its score.
C19_SendFailureIsCaught ==
  LET genome == population[ev.who].instructions
  IN /\ (ev.pc \in {"after", "done"} /\ FailedSends # {}) =>
          /\ ev.loc.sent_packets = Cardinality(SendPositions(genome)) - Cardinality(FailedSends)
          /\ ev.loc.ttl_values = ParamsOf(genome, "set_ttl")
          /\ ev.loc.payload_lengths = ParamsOf(genome, "set_payload_length")
          /\ ev.loc.window_sizes = ParamsOf(genome, "set_window_size")
          /\ ev.loc.delays = ParamsOf(genome, "set_delay")
          /\ \A k \in 1..Len(genome) :
               (genome[k].op = "set_flags"
                  /\ \A j \in (k + 1)..Len(genome) : genome[j].op # "set_flags")
                 => ev.loc.packet.flags = genome[k].s
     /\ (ev.pc = "done" /\ FailedSends # {}) =>
          /\ ev.alerts_triggered = ev.alerts_after - ev.alerts_before
          /\ snort_alert_offset >= ev.log_after
          /\ population[ev.who].fitness = ev.result
          /\ ev.loc.sent_packets > 0 =>
               ev.result = total_fitness(genome, ev.loc, ev.alerts_triggered)

\* an evaluation scored after its first send failed, a later send sent, and
\* a set_ttl and a set_flags executed after the failure
C19_Witness ==
  LET genome == population[ev.who].instructions
  IN /\ ev.pc = "done"
     /\ FailedSends # {}
     /\ ev.loc.sent_packets > 0
     /\ ev.result # Zero
     /\ \E k \in FailedSends :
          /\ \E j \in (k + 1)..Len(genome) : genome[j].op = "set_ttl"
          /\ \E j \in (k + 1)..Len(genome) : genome[j].op = "set_flags"
          /\ \E j \in (k + 1)..Len(genome) : genome[j].op = "send_packet"

\* ------------------------------------------------------------ C20
\* C20: after every evaluation of an individual, one that sent no probe
\* included, the stats of the individual hold the alerts observed and the
\* probes sent in that evaluation.
C20_StatsAreThoseOfTheEvaluation ==
  ev.pc = "done" =>
    /\ population[ev.who].stats.present
    /\ population[ev.who].stats.alerts = ev.alerts_triggered
    /\ population[ev.who].stats.packets = ev.loc.sent_packets

\* ------------------------------------------------------------ C21
\* the fields of a probe state, the destination port as the int it is
ProbeState(packet, dst_port) ==
  [src_ip |-> packet.src_ip, dst_ip |-> packet.dst_ip, src_port |-> packet.src_port,
   dst_port |-> dst_port, flags |-> packet.flags, ttl |-> packet.ttl,
   window_size |-> packet.window_size, payload_length |-> packet.payload_length,
   ip_flags |-> packet.ip_flags, delay |-> packet.delay, has |-> packet.has]

\* the replay of the genome saved, without a port override and against the
\* target the genome was evolved for
ReplayWithoutOverride ==
  /\ replay.pc \in {"run", "summary"}
  /\ saved # <<>>
  /\ replay.instruction_file = saved[1].lines
  /\ ~truthy(replay.target_ports)
  /\ replay.target_ip = population[1].target_ip

\* C21: with no destination override in effect, after any prefix of the
\* genome the probe state of the replay has the fields the probe state of
\* the evaluator has after the same prefix.
C21_ReplayProbeStateAsEvaluator ==
  ReplayWithoutOverride =>
    LET packet == packet_after(saved[1].instructions, replay.executed)
    IN /\ replay.packet.dst_port.type = "int"
       /\ ProbeState(replay.packet, replay.packet.dst_port.n)
            = ProbeState(packet, packet.dst_port)

\* ------------------------------------------------------------ C22
\* C22: crossover returns children only for genomes of the configured
\* length PAGE_COUNT * PAGE_SIZE; on genomes of another length, one that
\* does not divide evenly into pages among them, it fails and returns none.
C22_CrossoverChecksLength ==
  /\ last.op = "crossover" =>
       \A w \in 1..2 : Len(last.before[w].instructions) = GenomeLength
  /\ (steps > 0 /\ Len(last.before[1].instructions) # GenomeLength) =>
       (last.op = "raise" /\ population = last.before)

\* ------------------------------------------------------------ C23
\* what holds of a tournament and of the loop on a population of one of sizes
TournamentNeeds(sizes) ==
  /\ last.op = "select" => (2 <= last.point /\ last.point <= Len(population))
  /\ (pc = "none" /\ steps > 0 /\ (last.point < 2 \/ last.point > Len(population))) =>
       (last.op = "raise" /\ "parents" \notin DOMAIN last)
  /\ pop_size \in sizes =>
       /\ last.op # "replace"
       /\ pc # "done"
       /\ generation = 0
       /\ pc = "breed" => Len(new_individuals) < Len(population)
       /\ pc = "error" =>
            /\ last.op = "raise"
            /\ new_individuals = elites
            /\ objects.population = [i \in 1..pop_size |-> i]
            /\ Genomes(population)
                 \in {Genomes(NewPopulation(pop_size, order)) : order \in PopulationDraws}
  /\ pc = "error" => pop_size < TOURNAMENT_SIZE

\* C23 as stated: tournament_selection with a tournament size above the
\* population size or below 2 fails and returns no parents, and in the loop
\* every population smaller than TOURNAMENT_SIZE makes the first breeding step
\* fail, the population not having been replaced.
C23_SmallPopulationFails == TournamentNeeds(1..(TOURNAMENT_SIZE - 1))

\* C23, amended: tournament_selection with a tournament size above the
\* population size or below 2 fails and returns no parents, and in the loop
\* a population of 2 to TOURNAMENT_SIZE - 1 individuals makes the first
\* breeding step fail, the population not having been replaced.
C23_SmallPopulationOfTwoFails == TournamentNeeds(2..(TOURNAMENT_SIZE - 1))

\* the loop stopped by the tournament on three individuals
C23_Witness ==
  /\ pc = "error"
  /\ pop_size = 3
  /\ last.op = "raise"
  /\ Len(generation_logs) = 1

\* a tournament of five asked of four individuals
C23_WitnessSelect ==
  /\ pc = "none"
  /\ last.op = "raise"
  /\ Len(population) = 4
  /\ last.point = 5

\* ------------------------------------------------------------ C24
\* a step in which get_snort_alert_count is called, and what it returned
PollStep == (ev.pc # "exec" /\ ev'.pc = "exec") \/ (ev.pc = "after" /\ ev'.pc = "done")

PollCount == IF ev'.pc = "exec" THEN ev'.alerts_before ELSE ev'.alerts_after

\* C24: a poll while the alert log is missing returns 0 and leaves the
\* cursor where it is; an evaluation whose two polls find the log missing
\* has alerts_triggered = 0 and ends with its score as any other.
C24_MissingLogIsNotFatal ==
  [][/\ (PollStep /\ ~log_present) =>
          (PollCount = 0 /\ snort_alert_offset' = snort_alert_offset)
     /\ (ev.pc = "after" /\ ev'.pc = "done" /\ ev'.missing_before /\ ev'.missing_after) =>
          /\ ev'.alerts_triggered = 0
          /\ ev'.result = returned(population[ev.who], ev.loc, 0)
          /\ population'[ev.who].fitness = ev'.result
          /\ ev.loc.sent_packets > 0 => population'[ev.who].stats.alerts = 0
    ]_vars

\* the log removed after a poll had read a record of it, then an evaluation
\* that sent probes and found no log at either poll
C24_Witness ==
  /\ ev.pc = "done"
  /\ ev.missing_before
  /\ ev.missing_after
  /\ snort_alert_offset > 0
  /\ ev.loc.sent_packets > 0
  /\ ev.alerts_triggered = 0
  /\ ev.result # Zero

\* ------------------------------------------------------------ C25
\* C25: the cursor of the alert log changes in polls only and never goes
\* back; after a poll that found the log it is the number of records in
\* the log, and the poll counted the records between the old cursor and the
\* new one, so each record of a log that only grows is counted once.
C25_CursorMonotone ==
  [][/\ snort_alert_offset' >= snort_alert_offset
     /\ snort_alert_offset' # snort_alert_offset => PollStep
     /\ (PollStep /\ log_present) =>
          /\ snort_alert_offset' = alert_log
          /\ PollCount = snort_alert_offset' - snort_alert_offset
    ]_vars

\* a second evaluation whose two polls each counted records appended since
\* the poll before
C25_Witness ==
  /\ ev.pc = "done"
  /\ steps = 2
  /\ ev.alerts_before > 0
  /\ ev.alerts_after > 0
  /\ snort_alert_offset = alert_log
  /\ alert_log = ev.log_before + ev.alerts_after
  /\ ev.log_before > ev.alerts_before

\* ------------------------------------------------------------ C26
\* an instruction mutate may put in the genome of individual
FromRestrictedVocabulary(ins, individual) ==
  /\ ins.op \in {"set_flags", "set_ips", "set_ports", "send_packet"}
  /\ ins.op = "set_flags" => ins.s \in TCP_FLAGS
  /\ ins.op = "set_ips" => ins.t = individual.target_ip
  /\ ins.op = "set_ports" =>
       /\ 1024 <= ins.n /\ ins.n <= 65535
       /\ individual.port_range[1] <= ins.m /\ ins.m <= individual.port_range[2]

\* C26: after mutate every gene is the gene it was or an instruction of
\* kind set_flags, set_ips, set_ports or send_packet, its destination address
\* and port those of the individual's own target and port range; the other
\* individual is as it was.
C26_MutateVocabulary ==
  last.op = "mutate" =>
    /\ \A w \in 1..2 : w # last.who => population[w] = last.before[w]
    /\ Len(population[last.who].instructions) = Len(last.before[last.who].instructions)
    /\ \A i \in 1..Len(population[last.who].instructions) :
         \/ population[last.who].instructions[i] = last.before[last.who].instructions[i]
         \/ FromRestrictedVocabulary(population[last.who].instructions[i],
                                     last.before[last.who])

\* the second individual, whose target is not the first's: its first gene
\* replaced by a set_ports to a port of its own range
C26_Witness ==
  /\ last.op = "mutate"
  /\ last.who = 2
  /\ population[2].instructions[1] # last.before[2].instructions[1]
  /\ population[2].instructions[1].op = "set_ports"
  /\ population[2].instructions[1].m = 22
  /\ population[2].instructions[2] = last.before[2].instructions[2]

\* a set_ips to the individual's own target in place of an instruction that
\* is neither a set_ips nor of the restricted vocabulary
C26_WitnessIps ==
  /\ last.op = "mutate"
  /\ last.who = 2
  /\ \E i \in 1..Len(population[2].instructions) :
       /\ population[2].instructions[i].op = "set_ips"
       /\ population[2].instructions[i].t = "10.0.0.9"
       /\ last.before[2].instructions[i].op
            \notin {"set_flags", "set_ips", "set_ports", "send_packet"}

\* ------------------------------------------------------------ C27
\* a line that is the text of an instruction: a tuple of a quoted kind and a
\* parameter
is_instruction(text) ==
  /\ is_literal(text)
  /\ Len(text) >= 8
  /\ SubSeq(text, 1, 2) = <<"(", "'">>
  /\ SubSeq(text, 4, 6) = <<"'", ",", " ">>

Malformed(lines) == \E i \in 1..Len(lines) : ~is_instruction(strip(lines[i]))

\* C27: if a line of the genome file is malformed, the load fails before any
\* instruction is executed: no probe sent, no tally changed, no summary.
C27_MalformedFileIsFatal ==
  (replay.pc # "none" /\ Malformed(replay.instruction_file)) =>
    /\ replay.pc = "error"
    /\ replay.executed = 0
    /\ replay.probes = <<>>
    /\ Tallies(replay.results) = 0

====
